---- MODULE Spec2Model ----
(***************************************************************************)
(* Model of the NotebookLM microservice: the notebook identity registry    *)
(* (NotebookLMService over Database and the NotebookLM backend) and the    *)
(* language-consistency pipeline of ask_question.                          *)
(*                                                                         *)
(* Every coroutine is a process.  A step of a process is the code that     *)
(* runs between two awaits on a collaborator together with the effect of   *)
(* the awaited call; the event loop may run any other coroutine between    *)
(* two such steps.                                                         *)
(***************************************************************************)
EXTENDS Integers, Sequences, FiniteSets, TLC

\* ---------------------------------------------------------------- bounds
NumProcs == 2
MaxOps == 2

\* --------------------------------------------------------------- domains
Procs == 1..NumProcs
Emails == {<<"u">>}
Categories == {<<"c">>}
Langs == {"en", "es", "fr"}

None == [tag |-> "None"]
Pending == [tag |-> "pending"]
Raised == [tag |-> "raised"]
RBool(b) == [tag |-> "bool", val |-> b]

NoName == [fmt |-> ""]
CustomName == [fmt |-> "custom"]
NameArgs == {NoName, CustomName}

SourceTypes == {"url", "file", "text", "youtube"}

\* models.py: f"{user_email}-{main_category}"
make_user_key(user_email, main_category) == user_email \o <<"-">> \o main_category

\* models.py: user_key.rsplit('-', 1), ValueError unless there are two parts
parse_user_key(user_key) ==
  LET hyphens == {i \in 1..Len(user_key) : user_key[i] = "-"} IN
  IF hyphens = {} THEN Raised
  ELSE LET last == CHOOSE i \in hyphens : \A j \in hyphens : j <= i IN
       <<SubSeq(user_key, 1, last - 1), SubSeq(user_key, last + 1, Len(user_key))>>

UserKeys == {make_user_key(e, c) : e \in Emails, c \in Categories}

\* another user, for whom this model starts no call
OtherEmail == <<"v">>
OtherKey == CHOOSE k \in {make_user_key(OtherEmail, c) : c \in Categories} : TRUE
AllKeys == UserKeys \cup {OtherKey}

\* notebooklm_service.py:95  notebook_name or f"Chess Learning - {user_email} ({main_category})"
NotebookTitle(notebook_name, user_email, main_category) ==
  IF notebook_name = NoName
    THEN [fmt |-> "Chess Learning", email |-> user_email, cat |-> main_category]
    ELSE notebook_name

\* models.py UserNotebook, as built at notebooklm_service.py:111-121
UserNotebook(user_email, main_category, notebook_id, name, preferred_language, now) ==
  [user_key |-> make_user_key(user_email, main_category),
   user_email |-> user_email,
   main_category |-> main_category,
   notebook_id |-> notebook_id,
   notebook_name |-> name,
   preferred_language |-> preferred_language,
   glossary_version |-> "1.0",
   sources |-> <<>>,
   created_at |-> now,
   updated_at |-> now]

\* models.py NotebookSource
NotebookSource(source_type, content, title, now) ==
  [source_id |-> None, source_type |-> source_type, content |-> content,
   title |-> title, added_at |-> now]

\* ------------------------------------------- texts and language_utils.py
\* A text is known by what the detector reads in it: the characters of chess
\* notation, the characters left once the notation is stripped and the blanks
\* collapsed, and the verdict of the lingua classifier on what is left
\* (confidence in hundredths).
Text(name, chess, words, lingua, conf) ==
  [name |-> name, chess |-> chess, words |-> words, lingua |-> lingua, conf |-> conf,
   translated |-> FALSE]

MinDetectLength == 20
ConfidenceThreshold == 50

\* variant of _strip_chess_notation: the notation stays in the text
_strip_chess_notation_KeepsMoves(text) == text

\* for pattern in CHESS_NOTATION_PATTERNS: cleaned = re.sub(pattern, ' ', cleaned)
_strip_chess_notation(text) == [text EXCEPT !.chess = 0]

\* len(cleaned_text)
CleanedLen(cleaned) == cleaned.chess + cleaned.words

\* variant of detect_response_language: a text of any length is classified
detect_response_language_NoMinimum(text) ==
  IF text.chess + text.words = 0 THEN <<"unknown", 0>>
  ELSE LET cleaned_text == _strip_chess_notation(text) IN
    IF cleaned_text.lingua = "en" THEN <<"en", cleaned_text.conf>>
    ELSE IF cleaned_text.lingua = "es" THEN <<"es", cleaned_text.conf>>
    ELSE <<"unknown", 0>>

detect_response_language(text) ==
  IF text.chess + text.words = 0 THEN <<"unknown", 0>>
  ELSE LET cleaned_text == _strip_chess_notation(text) IN
    IF CleanedLen(cleaned_text) < MinDetectLength THEN <<"unknown", 0>>
    ELSE IF cleaned_text.lingua = "en" THEN <<"en", cleaned_text.conf>>
    ELSE IF cleaned_text.lingua = "es" THEN <<"es", cleaned_text.conf>>
    ELSE <<"unknown", 0>>

\* the calls detect_response_language makes to the lingua DETECTOR, in order
DetectorCalls(text) ==
  IF text.chess + text.words = 0 THEN <<>>
  ELSE LET cleaned_text == _strip_chess_notation(text) IN
    IF CleanedLen(cleaned_text) < MinDetectLength THEN <<>>
    ELSE IF cleaned_text.lingua \in {"en", "es"}
      THEN <<"detect_language_of", "compute_language_confidence">>
      ELSE <<"detect_language_of">>

\* variant of is_language_correct: English is verified like any other language
is_language_correct_NoDefault(response_text, expected_lang) ==
  LET d == detect_response_language(response_text) IN
  IF d[1] = "unknown" THEN TRUE
  ELSE d[1] = expected_lang /\ d[2] > ConfidenceThreshold

\* variant of is_language_correct: an answer that cannot be classified is not
\* let through
is_language_correct_Strict(response_text, expected_lang) ==
  IF expected_lang = "en" THEN TRUE
  ELSE LET d == detect_response_language(response_text) IN
    d[1] = expected_lang /\ d[2] > ConfidenceThreshold

is_language_correct(response_text, expected_lang) ==
  IF expected_lang = "en" THEN TRUE
  ELSE LET d == detect_response_language(response_text) IN
    IF d[1] = "unknown" THEN TRUE
    ELSE d[1] = expected_lang /\ d[2] > ConfidenceThreshold

\* variant of build_enhanced_prompt: the directive follows the question
build_enhanced_prompt_Appends(question, target_lang, user_writes_in) ==
  IF target_lang = "en" THEN <<question>>
  ELSE IF target_lang # "es" THEN <<question>>
  ELSE LET instruction == <<[instruction |-> "es"]>>
           note == IF user_writes_in # None /\ user_writes_in # [lang |-> target_lang]
                      /\ user_writes_in # [lang |-> "unknown"]
                     THEN <<[note |-> user_writes_in.lang, prefers |-> target_lang]>>
                     ELSE <<>>
       IN <<question>> \o instruction \o note

\* variant of build_enhanced_prompt: English gets a directive as Spanish does
build_enhanced_prompt_NoDefault(question, target_lang, user_writes_in) ==
  IF target_lang \notin {"en", "es"} THEN <<question>>
  ELSE LET instruction == <<[instruction |-> target_lang]>>
           note == IF user_writes_in # None /\ user_writes_in # [lang |-> target_lang]
                      /\ user_writes_in # [lang |-> "unknown"]
                     THEN <<[note |-> user_writes_in.lang, prefers |-> target_lang]>>
                     ELSE <<>>
       IN instruction \o note \o <<question>>

\* a prompt is the sequence of its parts; the question is its last part
build_enhanced_prompt(question, target_lang, user_writes_in) ==
  IF target_lang = "en" THEN <<question>>
  ELSE IF target_lang # "es" THEN <<question>>
  ELSE LET instruction == <<[instruction |-> "es"]>>
           note == IF user_writes_in # None /\ user_writes_in # [lang |-> target_lang]
                      /\ user_writes_in # [lang |-> "unknown"]
                     THEN <<[note |-> user_writes_in.lang, prefers |-> target_lang]>>
                     ELSE <<>>
       IN instruction \o note \o <<question>>

\* ------------------------------------------------ fallback_translation.py
\* what the translation service can answer to POST /translate
TranslationReplies(text) ==
  {[kind |-> "ok", translated |-> [text EXCEPT !.translated = TRUE]],
   [kind |-> "ok", translated |-> text],
   [kind |-> "ok", translated |-> None],
   [kind |-> "ok_no_field"],
   [kind |-> "timeout"],
   [kind |-> "http_error"],
   [kind |-> "error"]}

\* the request has not been answered yet
NoReply == [kind |-> "pending"]

\* variant of TranslateReply: the timeout of the request is not caught
TranslateReply_TimeoutEscapes(text, reply) ==
  IF reply.kind = "ok" THEN reply.translated
  ELSE IF reply.kind = "timeout" THEN Raised
  ELSE text

\* translate_response once the request has been issued (source_lang != target_lang):
\* result.get("translated", text) of a 2xx reply, text in each except clause
TranslateReply(text, reply) ==
  IF reply.kind = "ok" THEN reply.translated ELSE text

\* variant of translate_response: the request is posted whatever the languages
translate_response_AlwaysPosts(text, source_lang, target_lang, reply) ==
  [posted |-> TRUE, answer |-> TranslateReply(text, reply)]

\* translate_response(text, source_lang, target_lang): whether the request is
\* posted to the translation service, and what the call returns on reply
translate_response(text, source_lang, target_lang, reply) ==
  IF source_lang = target_lang
    THEN [posted |-> FALSE, answer |-> text]
    ELSE [posted |-> TRUE, answer |-> TranslateReply(text, reply)]

\* the texts the calls are tried on
Questions == {Text("q_en", 0, 30, "en", 90), Text("q_short", 4, 10, "en", 90)}
Answers ==
  {Text("es_sure", 12, 40, "es", 90),
   Text("en_sure", 12, 40, "en", 90),
   Text("es_unsure", 0, 40, "es", 40),
   Text("en_unsure", 0, 40, "en", 50),
   Text("short", 30, 19, "es", 90),
   Text("unclear", 0, 40, "none", 0),
   Text("empty", 0, 0, "none", 0)}

\* models.py AskQuestionResponse
AskQuestionResponse(answer, response_language, was_translated) ==
  [answer |-> answer, sources_used |-> <<>>, response_language |-> response_language,
   was_translated |-> was_translated]

VARIABLES
  db,           \* user_notebooks collection: user_key -> UserNotebook or None
  notebooks,    \* backend: ids of the notebooks that exist
  nbSources,    \* backend: notebook id -> titles of the sources added to it
  nextId,       \* backend: number of notebooks created so far
  procs,        \* coroutines: the running call of each process
  opsStarted,   \* number of top-level calls started
  epochCreates, \* history: backend create calls per key since its mapping was last deleted
  promised,     \* history: notebook_id first returned by get_or_create_notebook
                \* per key since its mapping was last deleted (0: none)
  tasks,        \* detached incident-report tasks not yet run
  incidents,    \* incident reports logged
  analysis_history \* analysis_history collection: user_key -> document or None

vars == <<db, notebooks, nbSources, nextId, procs, opsStarted,
          epochCreates, promised, tasks, incidents, analysis_history>>

\* database.py: limit: int = 20
DefaultLimit == 20

Idle == [op |-> "idle", id |-> 0, pc |-> "idle", email |-> <<>>, category |-> <<>>,
         lang |-> "en", name |-> NoName, auto |-> FALSE, stype |-> "text",
         stack |-> <<>>, nb |-> None, created |-> 0, stale |-> 0,
         question |-> None, prompt |-> <<>>, raw |-> None, detected |-> "",
         tr |-> None, reply |-> NoReply, result |-> Pending, trace |-> <<>>,
         limit |-> DefaultLimit, skip |-> 0]

KeyOf(pr) == make_user_key(pr.email, pr.category)

\* datetime.utcnow(): the n-th clock reading of a call, a value no other reading has
utcnow(pr, n) == [call |-> pr.id, reading |-> n]

Init ==
  /\ db = [k \in AllKeys |-> None]
  /\ notebooks = {}
  /\ nbSources = <<>>
  /\ nextId = 0
  /\ procs = [p \in Procs |-> Idle]
  /\ opsStarted = 0
  /\ epochCreates = [k \in UserKeys |-> 0]
  /\ promised = [k \in UserKeys |-> 0]
  /\ tasks = {}
  /\ incidents = {}
  /\ analysis_history = [k \in AllKeys |-> None]

\* the state after earlier calls: the user has a notebook and a mapping without
\* sources; the other user has a notebook with the glossary and one source, a
\* mapping that records the source, and one analysis in the history
TheEmail == CHOOSE e \in Emails : TRUE
TheCategory == CHOOSE c \in Categories : TRUE
Earlier(n) == [call |-> 0, reading |-> n]

InitExisting ==
  /\ db = [k \in AllKeys |->
            IF k = OtherKey
              THEN [UserNotebook(OtherEmail, TheCategory, 2,
                                 NotebookTitle(NoName, OtherEmail, TheCategory), "es",
                                 Earlier(2))
                      EXCEPT !.sources = <<NotebookSource("text", "content", None, Earlier(3))>>,
                             !.updated_at = Earlier(3)]
            ELSE IF k = make_user_key(TheEmail, TheCategory)
              THEN UserNotebook(TheEmail, TheCategory, 1,
                                NotebookTitle(NoName, TheEmail, TheCategory), "en",
                                Earlier(1))
            ELSE None]
  /\ notebooks = {1, 2}
  /\ nbSources = <<<<>>, <<"Chess Terminology Glossary", "Pasted Text">>>>
  /\ nextId = Cardinality(notebooks)
  /\ procs = [p \in Procs |-> Idle]
  /\ opsStarted = 0
  /\ epochCreates = [k \in UserKeys |-> IF k = make_user_key(TheEmail, TheCategory) THEN 1 ELSE 0]
  /\ promised = [k \in UserKeys |-> IF k = make_user_key(TheEmail, TheCategory) THEN 1 ELSE 0]
  /\ tasks = {}
  /\ incidents = {}
  /\ analysis_history = [k \in AllKeys |->
       IF k = OtherKey
         THEN [user_key |-> k,
               analyses |-> <<[analysis_id |-> Earlier(4), question |-> "question",
                               answer |-> "answer", sources_used |-> <<>>,
                               created_at |-> Earlier(5)]>>,
               created_at |-> Earlier(5), updated_at |-> Earlier(5)]
         ELSE None]

\* the state after two save_analysis calls of the user that ran side by side:
\* the record created second was pushed first
InitHistory ==
  /\ db = [k \in AllKeys |-> None]
  /\ notebooks = {}
  /\ nbSources = <<>>
  /\ nextId = 0
  /\ procs = [p \in Procs |-> Idle]
  /\ opsStarted = 0
  /\ epochCreates = [k \in UserKeys |-> 0]
  /\ promised = [k \in UserKeys |-> 0]
  /\ tasks = {}
  /\ incidents = {}
  /\ analysis_history = [k \in AllKeys |->
       IF k = make_user_key(TheEmail, TheCategory)
         THEN [user_key |-> k,
               analyses |-> <<[analysis_id |-> Earlier(3), question |-> "question",
                               answer |-> "answer", sources_used |-> <<>>,
                               created_at |-> Earlier(4)],
                              [analysis_id |-> Earlier(1), question |-> "question",
                               answer |-> "answer", sources_used |-> <<>>,
                               created_at |-> Earlier(2)]>>,
               created_at |-> Earlier(4), updated_at |-> Earlier(2)]
         ELSE None]

\* ------------------------------------------------------- process helpers
Log(pr, call) == [pr EXCEPT !.trace = Append(@, call)]

\* the call of a process ends with value val
Finish(pr, val) == [pr EXCEPT !.pc = "done", !.result = val, !.stack = <<>>]

\* an exception nobody catches unwinds every frame of the call
Raise(pr) == Finish(pr, Raised)

\* add_chess_game resumes after _ensure_valid_notebook returned val
\* notebooklm_service.py:226-229
CgResume(pr, val) ==
  IF val = None
    THEN Finish(pr, RBool(FALSE))
    ELSE [pr EXCEPT !.nb = val, !.pc = "cg_add", !.stack = Tail(@)]

\* _ensure_valid_notebook returns val to its caller
EvRet(pr, val) ==
  IF pr.stack = <<>> THEN Finish(pr, val) ELSE CgResume(pr, val)

\* add_source resumes after get_or_create_notebook returned val
\* notebooklm_service.py:150-157
AsResume(pr, val) ==
  IF val = None
    THEN Finish(pr, RBool(FALSE))
    ELSE [pr EXCEPT !.nb = val, !.pc = "as_add", !.stack = Tail(@)]

\* ask_question resumes after get_or_create_notebook returned val
\* notebooklm_service.py:387-394
AqResume(pr, val) ==
  IF val = None
    THEN Finish(pr, None)
    ELSE [pr EXCEPT !.nb = val, !.pc = "aq_ask", !.stack = Tail(@)]

\* get_or_create_notebook returns val to its caller
GocRet(pr, val) ==
  IF pr.stack = <<>> THEN Finish(pr, val)
  ELSE IF Head(pr.stack) = "ev" THEN EvRet([pr EXCEPT !.stack = Tail(@)], val)
  ELSE IF Head(pr.stack) = "as" THEN AsResume(pr, val)
  ELSE AqResume(pr, val)

\* a caller awaits self.get_or_create_notebook(...) without a notebook_name
CallGoc(pr, frame) ==
  [pr EXCEPT !.stack = <<frame>> \o @, !.pc = "goc_get", !.name = NoName]

Free(p) == procs[p].pc \in {"idle", "done"} /\ opsStarted < MaxOps

Begin(p, op, pc, email, category) ==
  [Idle EXCEPT !.op = op, !.id = opsStarted + 1, !.pc = pc,
               !.email = email, !.category = category]

\* ------------------------------------------------- Database (database.py)
\* update_one({"user_key": ...}, {"$set": notebook.model_dump()}, upsert=True)
save_user_notebook(d, notebook) == [d EXCEPT ![notebook.user_key] = notebook]

\* update_one({"user_key": user_key}, {"$push": {"sources": ...}, "$set": {"updated_at": ...}})
\* without upsert: a key that matches no document changes nothing
add_source_to_notebook(d, user_key, source) ==
  IF d[user_key] = None THEN d
  ELSE [d EXCEPT ![user_key].sources = Append(@, source),
                 ![user_key].updated_at = source.added_at]

\* variant of delete_user_notebook: the filter on the key is missing
delete_user_notebook_All(d, user_key) == [k \in DOMAIN d |-> None]

\* delete_one({"user_key": user_key})
delete_user_notebook(d, user_key) == [d EXCEPT ![user_key] = None]

\* analysis_history.update_one({"user_key": user_key},
\*   {"$push": {"analyses": ...}, "$set": {"updated_at": ...},
\*    "$setOnInsert": {"created_at": ...}}, upsert=True)
\* variant of save_analysis: the list is set, not pushed to
save_analysis_Replaces(h, user_key, analysis) ==
  [h EXCEPT ![user_key] =
     [user_key |-> user_key, analyses |-> <<analysis>>,
      created_at |-> analysis.created_at, updated_at |-> analysis.created_at]]

save_analysis(h, user_key, analysis) ==
  IF h[user_key] = None
    THEN [h EXCEPT ![user_key] =
            [user_key |-> user_key, analyses |-> <<analysis>>,
             created_at |-> analysis.created_at, updated_at |-> analysis.created_at]]
    ELSE [h EXCEPT ![user_key].analyses = Append(@, analysis),
                   ![user_key].updated_at = analysis.created_at]

\* a.created_at < b.created_at: the clock readings of a call follow those of
\* the calls started before it
Earlier_than(a, b) ==
  \/ a.call < b.call
  \/ a.call = b.call /\ a.reading < b.reading

\* sorted(analyses, key=lambda x: x.get("created_at", ""), reverse=True): the
\* sort is stable, records of one created_at keep the order they have
RECURSIVE sorted_reverse(_)
sorted_reverse(analyses) ==
  IF analyses = <<>> THEN <<>>
  ELSE LET n == Len(analyses)
           x == analyses[n]
           rest == sorted_reverse(SubSeq(analyses, 1, n - 1))
           \* x goes behind every record that is not older than it
           ahead == {i \in 1..Len(rest) : ~Earlier_than(rest[i].created_at, x.created_at)}
           at == Cardinality(ahead) IN
       SubSeq(rest, 1, at) \o <<x>> \o SubSeq(rest, at + 1, Len(rest))

\* an index of a Python slice brought into 0..len: a negative one counts from
\* the end
SliceIndex(i, len) ==
  IF i < 0 THEN (IF i + len < 0 THEN 0 ELSE i + len)
  ELSE IF i > len THEN len ELSE i

\* seq[start:stop]
Slice(seq, start, stop) ==
  SubSeq(seq, SliceIndex(start, Len(seq)) + 1, SliceIndex(stop, Len(seq)))

\* variant of get_analysis_history: the page is cut before the sort
get_analysis_history_SliceFirst(h, user_key, limit, skip) ==
  IF h[user_key] = None THEN [analyses |-> <<>>, total_count |-> 0]
  ELSE [analyses |-> sorted_reverse(Slice(h[user_key].analyses, skip, skip + limit)),
        total_count |-> Len(h[user_key].analyses)]

\* database.py get_analysis_history: find_one({"user_key": user_key}), sort by
\* created_at descending, sorted_analyses[skip:skip + limit], len(analyses)
get_analysis_history(h, user_key, limit, skip) ==
  IF h[user_key] = None THEN [analyses |-> <<>>, total_count |-> 0]
  ELSE LET analyses == h[user_key].analyses
           total_count == Len(analyses)
           sorted_analyses == sorted_reverse(analyses)
           paginated == Slice(sorted_analyses, skip, skip + limit) IN
       [analyses |-> paginated, total_count |-> total_count]

\* ------------------------------------------- get_or_create_notebook
CallGetOrCreate(p) ==
  /\ Free(p)
  /\ \E e \in Emails, c \in Categories, n \in NameArgs, l \in Langs :
       procs' = [procs EXCEPT ![p] =
                   [Begin(p, "get_or_create_notebook", "goc_get", e, c)
                      EXCEPT !.name = n, !.lang = l]]
  /\ opsStarted' = opsStarted + 1
  /\ UNCHANGED <<db, notebooks, nbSources, nextId, epochCreates, promised,
                 tasks, incidents, analysis_history>>

\* variant of GocGet: a mapping stored under another language than the one asked
\* for is provisioned again
GocGet_Reprovisions(p, fault) ==
  LET pr == procs[p]
      k == KeyOf(pr)
      existing == db[k] IN
  /\ pr.pc = "goc_get"
  /\ \/ /\ fault
        /\ procs' = [procs EXCEPT ![p] = Raise(Log(pr, "db.get:raise"))]
        /\ UNCHANGED promised
     \/ /\ ~fault
        /\ existing # None
        /\ procs' = [procs EXCEPT ![p] =
             IF existing.preferred_language = pr.lang
               THEN GocRet(Log(pr, "db.get:found"), existing)
               ELSE [Log(pr, "db.get:found") EXCEPT !.pc = "goc_create"]]
        /\ promised' = [promised EXCEPT ![k] = IF @ = 0 THEN existing.notebook_id ELSE @]
     \/ /\ ~fault
        /\ existing = None
        /\ procs' = [procs EXCEPT ![p] = [Log(pr, "db.get:none") EXCEPT !.pc = "goc_create"]]
        /\ UNCHANGED promised
  /\ UNCHANGED <<db, notebooks, nbSources, nextId, opsStarted, epochCreates,
                 tasks, incidents, analysis_history>>

\* existing = await db.get_user_notebook(user_key); if existing: return existing
GocGet(p, fault) ==
  LET pr == procs[p]
      k == KeyOf(pr)
      existing == db[k] IN
  /\ pr.pc = "goc_get"
  /\ \/ /\ fault
        /\ procs' = [procs EXCEPT ![p] = Raise(Log(pr, "db.get:raise"))]
        /\ UNCHANGED promised
     \/ /\ ~fault
        /\ existing # None
        /\ procs' = [procs EXCEPT ![p] = GocRet(Log(pr, "db.get:found"), existing)]
        /\ promised' = [promised EXCEPT ![k] = IF @ = 0 THEN existing.notebook_id ELSE @]
     \/ /\ ~fault
        /\ existing = None
        /\ procs' = [procs EXCEPT ![p] = [Log(pr, "db.get:none") EXCEPT !.pc = "goc_create"]]
        /\ UNCHANGED promised
  /\ UNCHANGED <<db, notebooks, nbSources, nextId, opsStarted, epochCreates,
                 tasks, incidents, analysis_history>>

\* notebook = await client.notebooks.create(title=name)
GocCreate(p) ==
  LET pr == procs[p]
      k == KeyOf(pr)
      id == nextId + 1 IN
  /\ pr.pc = "goc_create"
  /\ \/ /\ procs' = [procs EXCEPT ![p] = GocRet(Log(pr, "nb.create:fail"), None)]
        /\ UNCHANGED <<notebooks, nbSources, nextId, epochCreates>>
     \/ /\ nextId' = id
        /\ notebooks' = notebooks \cup {id}
        /\ nbSources' = Append(nbSources, <<>>)
        /\ epochCreates' = [epochCreates EXCEPT ![k] = @ + 1]
        /\ procs' = [procs EXCEPT ![p] =
             [Log(pr, "nb.create:ok") EXCEPT
                !.created = id,
                !.pc = IF pr.lang # "en" THEN "goc_glossary" ELSE "goc_save"]]
  /\ UNCHANGED <<db, opsStarted, promised, tasks, incidents, analysis_history>>

\* glossary_source.py: title="Chess Terminology Glossary"
GlossaryTitle == "Chess Terminology Glossary"

\* variant of add_glossary_source_to_notebook: every language gets the glossary
add_glossary_source_to_notebook_AnyLanguage(sources, target_lang, fails) ==
  IF fails
    THEN [sources |-> sources, called |-> TRUE, result |-> FALSE]
    ELSE [sources |-> Append(sources, GlossaryTitle), called |-> TRUE, result |-> TRUE]

\* glossary_source.py: add_glossary_source_to_notebook(client, notebook_id,
\* target_lang) on a notebook with the given sources, the call of
\* client.sources.add_text failing or not: the sources it leaves, whether it
\* called the backend, and what it returns
add_glossary_source_to_notebook(sources, target_lang, fails) ==
  IF target_lang # "es"
    THEN [sources |-> sources, called |-> FALSE, result |-> FALSE]
  ELSE IF fails
    THEN [sources |-> sources, called |-> TRUE, result |-> FALSE]
    ELSE [sources |-> Append(sources, GlossaryTitle), called |-> TRUE, result |-> TRUE]

\* what add_glossary_source_to_notebook did, as the trace of the call keeps it
GlossaryLabel(g) ==
  IF ~g.called THEN "glossary:unsupported"
  ELSE IF g.result THEN "glossary:ok" ELSE "glossary:fail"

\* variant of GocGlossary: a glossary that could not be added fails the creation
GocGlossary_FailureIsFatal(p) ==
  LET pr == procs[p] IN
  /\ pr.pc = "goc_glossary"
  /\ \E fails \in BOOLEAN :
       /\ pr.created \notin notebooks => fails
       /\ LET g == add_glossary_source_to_notebook(nbSources[pr.created], pr.lang, fails) IN
          /\ nbSources' = [nbSources EXCEPT ![pr.created] = g.sources]
          /\ procs' = [procs EXCEPT ![p] =
                        IF g.called /\ ~g.result
                          THEN GocRet(Log(pr, GlossaryLabel(g)), None)
                          ELSE [Log(pr, GlossaryLabel(g)) EXCEPT !.pc = "goc_save"]]
  /\ UNCHANGED <<db, notebooks, nextId, opsStarted, epochCreates, promised,
                 tasks, incidents, analysis_history>>

\* await add_glossary_source_to_notebook(client, notebook.id, preferred_language)
\* the backend call fails when the notebook is gone, and may fail anyway
GocGlossary(p) ==
  LET pr == procs[p] IN
  /\ pr.pc = "goc_glossary"
  /\ \E fails \in BOOLEAN :
       /\ pr.created \notin notebooks => fails
       /\ LET g == add_glossary_source_to_notebook(nbSources[pr.created], pr.lang, fails) IN
          /\ nbSources' = [nbSources EXCEPT ![pr.created] = g.sources]
          /\ procs' = [procs EXCEPT ![p] =
                        [Log(pr, GlossaryLabel(g)) EXCEPT !.pc = "goc_save"]]
  /\ UNCHANGED <<db, notebooks, nextId, opsStarted, epochCreates, promised,
                 tasks, incidents, analysis_history>>

\* user_notebook = UserNotebook(...); await db.save_user_notebook(user_notebook);
\* return user_notebook
GocSave(p, fault) ==
  LET pr == procs[p]
      k == KeyOf(pr)
      user_notebook ==
        [UserNotebook(pr.email, pr.category, pr.created,
                      NotebookTitle(pr.name, pr.email, pr.category), pr.lang,
                      utcnow(pr, 1))
           EXCEPT !.updated_at = utcnow(pr, 2)] IN
  /\ pr.pc = "goc_save"
  /\ \/ /\ ~fault
        /\ db' = save_user_notebook(db, user_notebook)
        /\ procs' = [procs EXCEPT ![p] = GocRet(Log(pr, "db.save:ok"), user_notebook)]
     \/ /\ fault
        /\ UNCHANGED db
        /\ procs' = [procs EXCEPT ![p] = GocRet(Log(pr, "db.save:fail"), user_notebook)]
  /\ promised' = [promised EXCEPT ![k] = IF @ = 0 THEN pr.created ELSE @]
  /\ UNCHANGED <<notebooks, nbSources, nextId, opsStarted, epochCreates, tasks, incidents,
                 analysis_history>>

\* ------------------------------------------- _ensure_valid_notebook
CallEnsureValid(p) ==
  /\ Free(p)
  /\ \E e \in Emails, c \in Categories, l \in Langs :
       procs' = [procs EXCEPT ![p] =
                   [Begin(p, "_ensure_valid_notebook", "ev_get", e, c)
                      EXCEPT !.lang = l]]
  /\ opsStarted' = opsStarted + 1
  /\ UNCHANGED <<db, notebooks, nbSources, nextId, epochCreates, promised,
                 tasks, incidents, analysis_history>>

\* user_notebook = await db.get_user_notebook(user_key)
\* variant of EvGet: without a mapping the stale path is taken all the same
EvGet_DeletesWithoutMapping(p, fault) ==
  LET pr == procs[p]
      user_notebook == db[KeyOf(pr)] IN
  /\ pr.pc = "ev_get"
  /\ \/ /\ fault
        /\ procs' = [procs EXCEPT ![p] = Raise(Log(pr, "db.get:raise"))]
     \/ /\ ~fault
        /\ user_notebook # None
        /\ procs' = [procs EXCEPT ![p] =
             [Log(pr, "db.get:found") EXCEPT !.nb = user_notebook, !.pc = "ev_probe"]]
     \/ /\ ~fault
        /\ user_notebook = None
        /\ procs' = [procs EXCEPT ![p] = [Log(pr, "db.get:none") EXCEPT !.pc = "ev_delete"]]
  /\ UNCHANGED <<db, notebooks, nbSources, nextId, opsStarted, epochCreates,
                 promised, tasks, incidents, analysis_history>>

EvGet(p, fault) ==
  LET pr == procs[p]
      user_notebook == db[KeyOf(pr)] IN
  /\ pr.pc = "ev_get"
  /\ \/ /\ fault
        /\ procs' = [procs EXCEPT ![p] = Raise(Log(pr, "db.get:raise"))]
     \/ /\ ~fault
        /\ user_notebook # None
        /\ procs' = [procs EXCEPT ![p] =
             [Log(pr, "db.get:found") EXCEPT !.nb = user_notebook, !.pc = "ev_probe"]]
     \/ /\ ~fault
        /\ user_notebook = None
        /\ procs' = [procs EXCEPT ![p] = CallGoc(Log(pr, "db.get:none"), "ev")]
  /\ UNCHANGED <<db, notebooks, nbSources, nextId, opsStarted, epochCreates,
                 promised, tasks, incidents, analysis_history>>
\* variant of EvProbe: only NotFound counts as stale, any other probe error is
\* taken for a valid notebook
EvProbe_OnlyNotFound(p) ==
  LET pr == procs[p]
      id == pr.nb.notebook_id IN
  /\ pr.pc = "ev_probe"
  /\ \/ /\ id \in notebooks
        /\ procs' = [procs EXCEPT ![p] = EvRet(Log(pr, "nb.get:ok"), pr.nb)]
     \/ /\ id \notin notebooks
        /\ procs' = [procs EXCEPT ![p] =
             [Log(pr, "nb.get:notfound") EXCEPT !.stale = id, !.pc = "ev_delete"]]
     \/ procs' = [procs EXCEPT ![p] = EvRet(Log(pr, "nb.get:error"), pr.nb)]
  /\ UNCHANGED <<db, notebooks, nbSources, nextId, opsStarted, epochCreates,
                 promised, tasks, incidents, analysis_history>>

\* await client.notebooks.get(user_notebook.notebook_id): the probe answers when
\* the backend has the notebook, raises NotFound when it has not, and may raise
\* any other error in both cases
EvProbe(p) ==
  LET pr == procs[p]
      id == pr.nb.notebook_id IN
  /\ pr.pc = "ev_probe"
  /\ \/ /\ id \in notebooks
        /\ procs' = [procs EXCEPT ![p] = EvRet(Log(pr, "nb.get:ok"), pr.nb)]
     \/ /\ id \notin notebooks
        /\ procs' = [procs EXCEPT ![p] =
             [Log(pr, "nb.get:notfound") EXCEPT !.stale = id, !.pc = "ev_delete"]]
     \/ procs' = [procs EXCEPT ![p] =
             [Log(pr, "nb.get:error") EXCEPT !.stale = id, !.pc = "ev_delete"]]
  /\ UNCHANGED <<db, notebooks, nbSources, nextId, opsStarted, epochCreates,
                 promised, tasks, incidents, analysis_history>>

\* await db.delete_user_notebook(user_key), then
\* return await self.get_or_create_notebook(...)
EvDelete(p, fault) ==
  LET pr == procs[p]
      k == KeyOf(pr) IN
  /\ pr.pc = "ev_delete"
  /\ \/ /\ ~fault
        /\ db' = delete_user_notebook(db, k)
        /\ epochCreates' = [epochCreates EXCEPT ![k] = IF db[k] = None THEN @ ELSE 0]
        /\ procs' = [procs EXCEPT ![p] = CallGoc(Log(pr, "db.delete:ok"), "ev")]
     \/ /\ fault
        /\ UNCHANGED <<db, epochCreates>>
        /\ procs' = [procs EXCEPT ![p] = CallGoc(Log(pr, "db.delete:fail"), "ev")]
  /\ promised' = [promised EXCEPT ![k] = 0]
  /\ UNCHANGED <<notebooks, nbSources, nextId, opsStarted, tasks, incidents,
                 analysis_history>>

\* ------------------------------------------------------ delete_notebook
CallDeleteNotebook(p) ==
  /\ Free(p)
  /\ \E e \in Emails, c \in Categories :
       procs' = [procs EXCEPT ![p] = Begin(p, "delete_notebook", "dn_get", e, c)]
  /\ opsStarted' = opsStarted + 1
  /\ UNCHANGED <<db, notebooks, nbSources, nextId, epochCreates, promised,
                 tasks, incidents, analysis_history>>

\* user_notebook = await db.get_user_notebook(user_key); if not user_notebook: return False
DnGet(p, fault) ==
  LET pr == procs[p]
      user_notebook == db[KeyOf(pr)] IN
  /\ pr.pc = "dn_get"
  /\ \/ /\ fault
        /\ procs' = [procs EXCEPT ![p] = Raise(Log(pr, "db.get:raise"))]
     \/ /\ ~fault
        /\ user_notebook = None
        /\ procs' = [procs EXCEPT ![p] = Finish(Log(pr, "db.get:none"), RBool(FALSE))]
     \/ /\ ~fault
        /\ user_notebook # None
        /\ procs' = [procs EXCEPT ![p] =
             [Log(pr, "db.get:found") EXCEPT !.nb = user_notebook, !.pc = "dn_backend"]]
  /\ UNCHANGED <<db, notebooks, nbSources, nextId, opsStarted, epochCreates,
                 promised, tasks, incidents, analysis_history>>

\* variant of DnBackend: a failed backend delete is logged and the mapping is
\* deleted all the same
DnBackend_DeletesAnyway(p) ==
  LET pr == procs[p]
      id == pr.nb.notebook_id IN
  /\ pr.pc = "dn_backend"
  /\ \/ /\ procs' = [procs EXCEPT ![p] = [Log(pr, "nb.delete:fail") EXCEPT !.pc = "dn_db"]]
        /\ UNCHANGED notebooks
     \/ /\ notebooks' = notebooks \ {id}
        /\ procs' = [procs EXCEPT ![p] = [Log(pr, "nb.delete:ok") EXCEPT !.pc = "dn_db"]]
  /\ UNCHANGED <<db, nbSources, nextId, opsStarted, epochCreates, promised,
                 tasks, incidents, analysis_history>>

\* await client.notebooks.delete(user_notebook.notebook_id)
DnBackend(p) ==
  LET pr == procs[p]
      id == pr.nb.notebook_id IN
  /\ pr.pc = "dn_backend"
  /\ \/ /\ procs' = [procs EXCEPT ![p] = Finish(Log(pr, "nb.delete:fail"), RBool(FALSE))]
        /\ UNCHANGED notebooks
     \/ /\ notebooks' = notebooks \ {id}
        /\ procs' = [procs EXCEPT ![p] = [Log(pr, "nb.delete:ok") EXCEPT !.pc = "dn_db"]]
  /\ UNCHANGED <<db, nbSources, nextId, opsStarted, epochCreates, promised,
                 tasks, incidents, analysis_history>>

\* await db.delete_user_notebook(user_key); return True
DnDb(p, fault) ==
  LET pr == procs[p]
      k == KeyOf(pr) IN
  /\ pr.pc = "dn_db"
  /\ \/ /\ ~fault
        /\ db' = delete_user_notebook(db, k)
        /\ epochCreates' = [epochCreates EXCEPT ![k] = IF db[k] = None THEN @ ELSE 0]
        /\ procs' = [procs EXCEPT ![p] = Finish(Log(pr, "db.delete:ok"), RBool(TRUE))]
     \/ /\ fault
        /\ UNCHANGED <<db, epochCreates>>
        /\ procs' = [procs EXCEPT ![p] = Finish(Log(pr, "db.delete:fail"), RBool(TRUE))]
  /\ promised' = [promised EXCEPT ![k] = 0]
  /\ UNCHANGED <<notebooks, nbSources, nextId, opsStarted, tasks, incidents,
                 analysis_history>>

\* ----------------------------------------------------------- add_source
CallAddSource(p) ==
  /\ Free(p)
  /\ \E e \in Emails, c \in Categories, t \in SourceTypes, a \in BOOLEAN,
        l \in Langs :
       \* preferred_language is read on the auto_create path only
       /\ ~a => l = "en"
       /\ procs' = [procs EXCEPT ![p] =
                   [Begin(p, "add_source", "as_get", e, c)
                      EXCEPT !.stype = t, !.auto = a, !.lang = l]]
  /\ opsStarted' = opsStarted + 1
  /\ UNCHANGED <<db, notebooks, nbSources, nextId, epochCreates, promised,
                 tasks, incidents, analysis_history>>

\* variant of AsGet: the notebook is created whatever auto_create_notebook says
AsGet_AlwaysCreates(p, fault) ==
  LET pr == procs[p]
      user_notebook == db[KeyOf(pr)] IN
  /\ pr.pc = "as_get"
  /\ \/ /\ fault
        /\ procs' = [procs EXCEPT ![p] = Raise(Log(pr, "db.get:raise"))]
     \/ /\ ~fault
        /\ user_notebook # None
        /\ procs' = [procs EXCEPT ![p] =
             [Log(pr, "db.get:found") EXCEPT !.nb = user_notebook, !.pc = "as_add"]]
     \/ /\ ~fault
        /\ user_notebook = None
        /\ procs' = [procs EXCEPT ![p] = CallGoc(Log(pr, "db.get:none"), "as")]
  /\ UNCHANGED <<db, notebooks, nbSources, nextId, opsStarted, epochCreates,
                 promised, tasks, incidents, analysis_history>>

\* user_notebook = await db.get_user_notebook(user_key) and the auto_create branch
AsGet(p, fault) ==
  LET pr == procs[p]
      user_notebook == db[KeyOf(pr)] IN
  /\ pr.pc = "as_get"
  /\ \/ /\ fault
        /\ procs' = [procs EXCEPT ![p] = Raise(Log(pr, "db.get:raise"))]
     \/ /\ ~fault
        /\ user_notebook # None
        /\ procs' = [procs EXCEPT ![p] =
             [Log(pr, "db.get:found") EXCEPT !.nb = user_notebook, !.pc = "as_add"]]
     \/ /\ ~fault
        /\ user_notebook = None
        /\ procs' = [procs EXCEPT ![p] =
             IF pr.auto THEN CallGoc(Log(pr, "db.get:none"), "as")
                        ELSE Finish(Log(pr, "db.get:none"), RBool(FALSE))]
  /\ UNCHANGED <<db, notebooks, nbSources, nextId, opsStarted, epochCreates,
                 promised, tasks, incidents, analysis_history>>

\* title under which add_source forwards the content to the backend
AsBackendTitle(source_type) ==
  IF source_type = "text" THEN "Pasted Text" ELSE "url"

\* variant of AsAdd: the source is recorded whether or not the backend took it
AsAdd_RecordsAnyway(p) ==
  LET pr == procs[p]
      id == pr.nb.notebook_id IN
  /\ pr.pc = "as_add"
  /\ \/ /\ pr.stype = "file"
        /\ procs' = [procs EXCEPT ![p] = Finish(Log(pr, "unsupported"), RBool(FALSE))]
        /\ UNCHANGED nbSources
     \/ /\ pr.stype # "file"
        /\ procs' = [procs EXCEPT ![p] = [Log(pr, "nb.add:fail") EXCEPT !.pc = "as_append"]]
        /\ UNCHANGED nbSources
     \/ /\ pr.stype # "file"
        /\ id \in notebooks
        /\ nbSources' = [nbSources EXCEPT ![id] = Append(@, AsBackendTitle(pr.stype))]
        /\ procs' = [procs EXCEPT ![p] = [Log(pr, "nb.add:ok") EXCEPT !.pc = "as_append"]]
  /\ UNCHANGED <<db, notebooks, nextId, opsStarted, epochCreates, promised,
                 tasks, incidents, analysis_history>>

\* await client.sources.add_url / add_text by source type; FILE is unsupported
AsAdd(p) ==
  LET pr == procs[p]
      id == pr.nb.notebook_id IN
  /\ pr.pc = "as_add"
  /\ \/ /\ pr.stype = "file"
        /\ procs' = [procs EXCEPT ![p] = Finish(Log(pr, "unsupported"), RBool(FALSE))]
        /\ UNCHANGED nbSources
     \/ /\ pr.stype # "file"
        /\ procs' = [procs EXCEPT ![p] = Finish(Log(pr, "nb.add:fail"), RBool(FALSE))]
        /\ UNCHANGED nbSources
     \/ /\ pr.stype # "file"
        /\ id \in notebooks
        /\ nbSources' = [nbSources EXCEPT ![id] = Append(@, AsBackendTitle(pr.stype))]
        /\ procs' = [procs EXCEPT ![p] = [Log(pr, "nb.add:ok") EXCEPT !.pc = "as_append"]]
  /\ UNCHANGED <<db, notebooks, nextId, opsStarted, epochCreates, promised,
                 tasks, incidents, analysis_history>>

\* variant of AsAppend: the caller writes back the sources it read, with the
\* new record appended
AsAppend_ReadModifyWrite(p, fault) ==
  LET pr == procs[p]
      source == NotebookSource(pr.stype, "content", None, utcnow(pr, 3)) IN
  /\ pr.pc = "as_append"
  /\ \/ /\ ~fault
        /\ db' = IF db[KeyOf(pr)] = None THEN db
                 ELSE save_user_notebook(db, [pr.nb EXCEPT !.sources = Append(@, source),
                                                          !.updated_at = source.added_at])
        /\ procs' = [procs EXCEPT ![p] = Finish(Log(pr, "db.append:ok"), RBool(TRUE))]
     \/ /\ fault
        /\ UNCHANGED db
        /\ procs' = [procs EXCEPT ![p] = Finish(Log(pr, "db.append:fail"), RBool(TRUE))]
  /\ UNCHANGED <<notebooks, nbSources, nextId, opsStarted, epochCreates, promised,
                 tasks, incidents, analysis_history>>

\* source = NotebookSource(...); await db.add_source_to_notebook(user_key, source);
\* return True
AsAppend(p, fault) ==
  LET pr == procs[p]
      source == NotebookSource(pr.stype, "content", None, utcnow(pr, 3)) IN
  /\ pr.pc = "as_append"
  /\ \/ /\ ~fault
        /\ db' = add_source_to_notebook(db, KeyOf(pr), source)
        /\ procs' = [procs EXCEPT ![p] = Finish(Log(pr, "db.append:ok"), RBool(TRUE))]
     \/ /\ fault
        /\ UNCHANGED db
        /\ procs' = [procs EXCEPT ![p] = Finish(Log(pr, "db.append:fail"), RBool(TRUE))]
  /\ UNCHANGED <<notebooks, nbSources, nextId, opsStarted, epochCreates, promised,
                 tasks, incidents, analysis_history>>

\* ------------------------------------------------------- add_chess_game
\* user_notebook = await self._ensure_valid_notebook(user_email, main_category)
CallAddChessGame(p) ==
  /\ Free(p)
  /\ \E e \in Emails, c \in Categories :
       procs' = [procs EXCEPT ![p] =
                   [Begin(p, "add_chess_game", "ev_get", e, c)
                      EXCEPT !.lang = "en", !.stack = <<"cg">>]]
  /\ opsStarted' = opsStarted + 1
  /\ UNCHANGED <<db, notebooks, nbSources, nextId, epochCreates, promised,
                 tasks, incidents, analysis_history>>

\* await client.sources.add_text(user_notebook.notebook_id, title=..., content=content)
CgAdd(p) ==
  LET pr == procs[p]
      id == pr.nb.notebook_id IN
  /\ pr.pc = "cg_add"
  /\ \/ /\ procs' = [procs EXCEPT ![p] = Finish(Log(pr, "nb.add:fail"), RBool(FALSE))]
        /\ UNCHANGED nbSources
     \/ /\ id \in notebooks
        /\ nbSources' = [nbSources EXCEPT ![id] = Append(@, "Chess Game")]
        /\ procs' = [procs EXCEPT ![p] = [Log(pr, "nb.add:ok") EXCEPT !.pc = "cg_append"]]
  /\ UNCHANGED <<db, notebooks, nextId, opsStarted, epochCreates, promised,
                 tasks, incidents, analysis_history>>

\* source = NotebookSource(TEXT, content[:500], ...);
\* await db.add_source_to_notebook(user_key, source); return True
CgAppend(p, fault) ==
  LET pr == procs[p]
      source == NotebookSource("text", "preview", None, utcnow(pr, 3)) IN
  /\ pr.pc = "cg_append"
  /\ \/ /\ ~fault
        /\ db' = add_source_to_notebook(db, KeyOf(pr), source)
        /\ procs' = [procs EXCEPT ![p] = Finish(Log(pr, "db.append:ok"), RBool(TRUE))]
     \/ /\ fault
        /\ UNCHANGED db
        /\ procs' = [procs EXCEPT ![p] = Finish(Log(pr, "db.append:fail"), RBool(TRUE))]
  /\ UNCHANGED <<notebooks, nbSources, nextId, opsStarted, epochCreates, promised,
                 tasks, incidents, analysis_history>>

\* ------------------------------------------------ api.py: save_analysis
\* models.py AnalysisRecord: analysis_id and created_at by default_factory
AnalysisRecord(question, answer, sources_used, id_now, now) ==
  [analysis_id |-> id_now, question |-> question, answer |-> answer,
   sources_used |-> sources_used, created_at |-> now]

HTTPException == [tag |-> "HTTPException", status_code |-> "500"]

CallSaveAnalysis(p) ==
  /\ Free(p)
  /\ \E e \in Emails, c \in Categories :
       procs' = [procs EXCEPT ![p] = Begin(p, "save_analysis", "sa_save", e, c)]
  /\ opsStarted' = opsStarted + 1
  /\ UNCHANGED <<db, notebooks, nbSources, nextId, epochCreates, promised,
                 tasks, incidents, analysis_history>>

\* success = await db.save_analysis(user_key=user_key, analysis=analysis);
\* if not success: raise HTTPException(500)
SaSave(p, fault) ==
  LET pr == procs[p]
      analysis == AnalysisRecord("question", "answer", <<>>, utcnow(pr, 1), utcnow(pr, 2)) IN
  /\ pr.pc = "sa_save"
  /\ \/ /\ ~fault
        /\ analysis_history' = save_analysis(analysis_history, KeyOf(pr), analysis)
        /\ procs' = [procs EXCEPT ![p] =
             Finish(Log(pr, "db.save_analysis:ok"),
                    [success |-> TRUE, analysis_id |-> analysis.analysis_id])]
     \/ /\ fault
        /\ UNCHANGED analysis_history
        /\ procs' = [procs EXCEPT ![p] =
             Finish(Log(pr, "db.save_analysis:fail"), HTTPException)]
  /\ UNCHANGED <<db, notebooks, nbSources, nextId, opsStarted, epochCreates, promised,
                 tasks, incidents>>

\* ----------------------------------------- api.py: get_analysis_history
\* limit and skip are query parameters of type int, passed on as they come
Limits == {-1, 0, 1, 2, DefaultLimit}
Skips == {-2, -1, 0, 1, 3}

CallGetAnalysisHistory(p) ==
  /\ Free(p)
  /\ \E e \in Emails, c \in Categories, limit \in Limits, skip \in Skips :
       procs' = [procs EXCEPT ![p] =
                   [Begin(p, "get_analysis_history", "ah_find", e, c)
                      EXCEPT !.limit = limit, !.skip = skip]]
  /\ opsStarted' = opsStarted + 1
  /\ UNCHANGED <<db, notebooks, nbSources, nextId, epochCreates, promised,
                 tasks, incidents, analysis_history>>

\* analyses, total_count = await db.get_analysis_history(user_key, limit, skip);
\* a failure of the database is answered by ([], 0)
AhFind(p, fault) ==
  LET pr == procs[p] IN
  /\ pr.pc = "ah_find"
  /\ \/ /\ ~fault
        /\ procs' = [procs EXCEPT ![p] =
             Finish(Log(pr, "db.history:ok"),
                    get_analysis_history(analysis_history, KeyOf(pr), pr.limit, pr.skip))]
     \/ /\ fault
        /\ procs' = [procs EXCEPT ![p] =
             Finish(Log(pr, "db.history:fail"), [analyses |-> <<>>, total_count |-> 0])]
  /\ UNCHANGED <<db, notebooks, nbSources, nextId, opsStarted, epochCreates, promised,
                 tasks, incidents, analysis_history>>

\* ------------------------------------------------------------ backend
\* the backend loses a notebook on its own (manual deletion, quota eviction)
BackendLosesNotebook ==
  /\ \E id \in notebooks : notebooks' = notebooks \ {id}
  /\ UNCHANGED <<db, nbSources, nextId, procs, opsStarted, epochCreates,
                 promised, tasks, incidents, analysis_history>>

\* --------------------------------------------------------- ask_question
CallAskQuestion(p) ==
  /\ Free(p)
  /\ \E e \in Emails, c \in Categories, q \in Questions, l \in Langs, a \in BOOLEAN :
       procs' = [procs EXCEPT ![p] =
                   [Begin(p, "ask_question", "aq_get", e, c)
                      EXCEPT !.question = q, !.lang = l, !.auto = a]]
  /\ opsStarted' = opsStarted + 1
  /\ UNCHANGED <<db, notebooks, nbSources, nextId, epochCreates, promised,
                 tasks, incidents, analysis_history>>

\* user_notebook = await db.get_user_notebook(user_key) and the auto_create branch
AqGet(p, fault) ==
  LET pr == procs[p]
      user_notebook == db[KeyOf(pr)] IN
  /\ pr.pc = "aq_get"
  /\ \/ /\ fault
        /\ procs' = [procs EXCEPT ![p] = Raise(Log(pr, "db.get:raise"))]
     \/ /\ ~fault
        /\ user_notebook # None
        /\ procs' = [procs EXCEPT ![p] =
             [Log(pr, "db.get:found") EXCEPT !.nb = user_notebook, !.pc = "aq_ask"]]
     \/ /\ ~fault
        /\ user_notebook = None
        /\ procs' = [procs EXCEPT ![p] =
             IF pr.auto THEN CallGoc(Log(pr, "db.get:none"), "aq")
                        ELSE Finish(Log(pr, "db.get:none"), None)]
  /\ UNCHANGED <<db, notebooks, nbSources, nextId, opsStarted, epochCreates,
                 promised, tasks, incidents, analysis_history>>

\* asyncio.create_task(log_language_incident(...)): the arguments of the report
IncidentTask(pr, detected_lang, answer) ==
  [call |-> pr.id, user_email |-> pr.email, expected_lang |-> pr.lang,
   detected_lang |-> detected_lang, question |-> pr.question, response_preview |-> answer,
   outcome |-> "scheduled"]

\* variant of SourceLang: the answer is always taken to be English
SourceLang_AlwaysEn(detected_lang) == "en"

\* source_lang = detected_lang if detected_lang != 'unknown' else 'en'
SourceLang(detected_lang) == IF detected_lang # "unknown" THEN detected_lang ELSE "en"

\* variant of AskFailed: a failed backend ask is tried again
AskFailed_Retries(pr) == [Log(pr, "chat.ask:fail") EXCEPT !.pc = "aq_ask"]

\* client.chat.ask raised: the except clause logs the error and returns None
AskFailed(pr) == Finish(Log(pr, "chat.ask:fail"), None)

\* detect the question, build the prompt, await client.chat.ask(...), then verify
\* the answer up to the await of the translation request
AqAsk(p) ==
  LET pr == procs[p]
      question_lang == detect_response_language(pr.question)[1]
      enhanced_question ==
        build_enhanced_prompt(pr.question, pr.lang,
          IF question_lang # "unknown" THEN [lang |-> question_lang] ELSE None)
      asked == [Log(pr, "chat.ask:ok") EXCEPT !.prompt = enhanced_question] IN
  /\ pr.pc = "aq_ask"
  /\ \/ /\ procs' = [procs EXCEPT ![p] =
             AskFailed([pr EXCEPT !.prompt = enhanced_question])]
        /\ UNCHANGED tasks
     \/ /\ pr.nb.notebook_id \in notebooks
        /\ \E answer \in Answers :
             IF pr.lang # "en" /\ ~is_language_correct(answer, pr.lang)
               THEN LET detected_lang == detect_response_language(answer)[1]
                        source_lang == SourceLang(detected_lang)
                        checked == [Log(asked, "incident:scheduled") EXCEPT
                                      !.raw = answer, !.detected = detected_lang,
                                      !.tr = [source_lang |-> source_lang,
                                              target_lang |-> pr.lang]]
                        call == translate_response(answer, source_lang, pr.lang, NoReply) IN
                    /\ tasks' = tasks \cup {IncidentTask(pr, detected_lang, answer)}
                    /\ procs' = [procs EXCEPT ![p] =
                         IF ~call.posted
                           THEN Finish(Log(checked, "translate:same"),
                                       AskQuestionResponse(call.answer, pr.lang, TRUE))
                           ELSE [Log(checked, "translate:post") EXCEPT !.pc = "aq_translate"]]
               ELSE /\ procs' = [procs EXCEPT ![p] =
                         Finish([asked EXCEPT !.raw = answer],
                                AskQuestionResponse(answer, pr.lang, FALSE))]
                    /\ UNCHANGED tasks
  /\ UNCHANGED <<db, notebooks, nbSources, nextId, opsStarted, epochCreates,
                 promised, incidents, analysis_history>>

\* response = await client.post(.../translate); a result that is not a string
\* fails the AskQuestionResponse validation, which the except clause turns into None
AqTranslate(p) ==
  LET pr == procs[p] IN
  /\ pr.pc = "aq_translate"
  /\ \E reply \in TranslationReplies(pr.raw) :
       LET answer == translate_response(pr.raw, pr.tr.source_lang, pr.tr.target_lang,
                                        reply).answer
           replied == [pr EXCEPT !.reply = reply] IN
       procs' = [procs EXCEPT ![p] =
         IF answer = None \/ answer = Raised
           THEN Finish(replied, None)
           ELSE Finish(replied, AskQuestionResponse(answer, pr.lang, TRUE))]
  /\ UNCHANGED <<db, notebooks, nbSources, nextId, opsStarted, epochCreates,
                 promised, tasks, incidents, analysis_history>>

\* the request is cancelled while ask_question awaits the translation service:
\* CancelledError is no Exception, so neither translate_response nor
\* ask_question catches it
Cancelled == [tag |-> "cancelled"]

\* variant of AqCancel: the report belongs to the request and is cancelled with it
AqCancel_CancelsReport(p) ==
  LET pr == procs[p] IN
  /\ pr.pc = "aq_translate"
  /\ procs' = [procs EXCEPT ![p] = Finish(Log(pr, "cancelled"), Cancelled)]
  /\ tasks' = {t \in tasks : t.call # pr.id}
  /\ UNCHANGED <<db, notebooks, nbSources, nextId, opsStarted, epochCreates,
                 promised, incidents, analysis_history>>

AqCancel(p) ==
  LET pr == procs[p] IN
  /\ pr.pc = "aq_translate"
  /\ procs' = [procs EXCEPT ![p] = Finish(Log(pr, "cancelled"), Cancelled)]
  /\ UNCHANGED <<db, notebooks, nbSources, nextId, opsStarted, epochCreates,
                 promised, tasks, incidents, analysis_history>>

\* the event loop runs a scheduled log_language_incident task; an exception of
\* the task stays in the task object, which nobody awaits
RunIncident ==
  /\ \E t \in tasks, outcome \in {"logged", "failed"} :
       /\ tasks' = tasks \ {t}
       /\ incidents' = incidents \cup {[t EXCEPT !.outcome = outcome]}
  /\ UNCHANGED <<db, notebooks, nbSources, nextId, procs, opsStarted, epochCreates,
                 promised, analysis_history>>

\* ------------------------------------------------- the system and its parts
\* Faults is the set of outcomes of a persistence call: FALSE is the call done,
\* TRUE is the call failed (get_user_notebook raises, the others catch the
\* exception and return False).

\* the steps of get_or_create_notebook and _ensure_valid_notebook, whoever calls
Nested(p, Faults) ==
  \/ \E f \in Faults : GocGet(p, f)
  \/ GocCreate(p)
  \/ GocGlossary(p)
  \/ \E f \in Faults : GocSave(p, f)
  \/ \E f \in Faults : EvGet(p, f)
  \/ EvProbe(p)
  \/ \E f \in Faults : EvDelete(p, f)

DeleteSteps(p, Faults) ==
  \/ \E f \in Faults : DnGet(p, f)
  \/ DnBackend(p)
  \/ \E f \in Faults : DnDb(p, f)

SourceSteps(p, Faults) ==
  \/ \E f \in Faults : AsGet(p, f)
  \/ AsAdd(p)
  \/ \E f \in Faults : AsAppend(p, f)
  \/ CgAdd(p)
  \/ \E f \in Faults : CgAppend(p, f)

AskSteps(p, Faults) ==
  \/ \E f \in Faults : AqGet(p, f)
  \/ AqAsk(p)
  \/ AqTranslate(p)

Next ==
  \/ \E p \in Procs : CallGetOrCreate(p)
  \/ \E p \in Procs : CallEnsureValid(p)
  \/ \E p \in Procs : CallDeleteNotebook(p)
  \/ \E p \in Procs : CallAddSource(p)
  \/ \E p \in Procs : CallAddChessGame(p)
  \/ \E p \in Procs : CallAskQuestion(p)
  \/ \E p \in Procs : Nested(p, BOOLEAN)
  \/ \E p \in Procs : DeleteSteps(p, BOOLEAN)
  \/ \E p \in Procs : SourceSteps(p, BOOLEAN)
  \/ \E p \in Procs : AskSteps(p, BOOLEAN)
  \/ RunIncident
  \/ BackendLosesNotebook

Spec == Init /\ [][Next]_vars

\* the notebook registry alone: get_or_create_notebook, _ensure_valid_notebook
\* and delete_notebook called concurrently
NextRegistry ==
  \/ \E p \in Procs : CallGetOrCreate(p)
  \/ \E p \in Procs : CallEnsureValid(p)
  \/ \E p \in Procs : CallDeleteNotebook(p)
  \/ \E p \in Procs : Nested(p, BOOLEAN)
  \/ \E p \in Procs : DeleteSteps(p, BOOLEAN)
  \/ BackendLosesNotebook

SpecRegistry == Init /\ [][NextRegistry]_vars

\* the registry with a persistence layer that never fails: what is left is the
\* interleaving of the calls and the failures of the backend
NextRace ==
  \/ \E p \in Procs : CallGetOrCreate(p)
  \/ \E p \in Procs : CallEnsureValid(p)
  \/ \E p \in Procs : CallDeleteNotebook(p)
  \/ \E p \in Procs : Nested(p, {FALSE})
  \/ \E p \in Procs : DeleteSteps(p, {FALSE})
  \/ BackendLosesNotebook

SpecRace == Init /\ [][NextRace]_vars

\* sources: add_source and add_chess_game against delete_notebook
NextSources ==
  \/ \E p \in Procs : CallAddSource(p)
  \/ \E p \in Procs : CallAddChessGame(p)
  \/ \E p \in Procs : CallDeleteNotebook(p)
  \/ \E p \in Procs : SourceSteps(p, BOOLEAN)
  \/ \E p \in Procs : Nested(p, BOOLEAN)
  \/ \E p \in Procs : DeleteSteps(p, BOOLEAN)
  \/ BackendLosesNotebook

SpecSources == Init /\ [][NextSources]_vars

\* add_source called concurrently for a user whose mapping exists
NextAppend ==
  \/ \E p \in Procs : CallAddSource(p)
  \/ \E p \in Procs, f \in BOOLEAN : AsGet(p, f)
  \/ \E p \in Procs : AsAdd(p)
  \/ \E p \in Procs, f \in BOOLEAN : AsAppend(p, f)

SpecAppend == InitExisting /\ [][NextAppend]_vars

\* every call that writes, for one user, next to the data of the other user
NextTenants ==
  \/ \E p \in Procs : CallGetOrCreate(p)
  \/ \E p \in Procs : CallDeleteNotebook(p)
  \/ \E p \in Procs : CallAddSource(p)
  \/ \E p \in Procs : CallAddChessGame(p)
  \/ \E p \in Procs : CallSaveAnalysis(p)
  \/ \E p \in Procs : Nested(p, BOOLEAN)
  \/ \E p \in Procs : DeleteSteps(p, BOOLEAN)
  \/ \E p \in Procs : SourceSteps(p, BOOLEAN)
  \/ \E p \in Procs, f \in BOOLEAN : SaSave(p, f)
  \/ BackendLosesNotebook

SpecTenants == InitExisting /\ [][NextTenants]_vars

\* the analysis history: save_analysis and get_analysis_history
NextHistory ==
  \/ \E p \in Procs : CallSaveAnalysis(p)
  \/ \E p \in Procs, f \in BOOLEAN : SaSave(p, f)
  \/ \E p \in Procs : CallGetAnalysisHistory(p)
  \/ \E p \in Procs, f \in BOOLEAN : AhFind(p, f)

SpecHistory == InitHistory /\ [][NextHistory]_vars

\* the glossary: notebooks created by get_or_create_notebook and recreated by
\* _ensure_valid_notebook, called for itself and by add_chess_game
NextGlossary ==
  \/ \E p \in Procs : CallGetOrCreate(p)
  \/ \E p \in Procs : CallEnsureValid(p)
  \/ \E p \in Procs : CallAddChessGame(p)
  \/ \E p \in Procs : Nested(p, BOOLEAN)
  \/ \E p \in Procs : CgAdd(p)
  \/ \E p \in Procs, f \in BOOLEAN : CgAppend(p, f)
  \/ BackendLosesNotebook

SpecGlossary == Init /\ [][NextGlossary]_vars

\* the language pipeline: one client that calls ask_question again and again,
\* against the detached incident reports and the backend
AskClient == CHOOSE p \in Procs : \A q \in Procs : p <= q

NextAsk ==
  \/ CallAskQuestion(AskClient)
  \/ AskSteps(AskClient, BOOLEAN)
  \/ \E f \in BOOLEAN : GocGet(AskClient, f)
  \/ GocCreate(AskClient)
  \/ GocGlossary(AskClient)
  \/ \E f \in BOOLEAN : GocSave(AskClient, f)
  \/ RunIncident
  \/ BackendLosesNotebook

SpecAsk == Init /\ [][NextAsk]_vars

\* every step of a running ask_question: each awaited collaborator returns or fails
AskCallSteps(p) ==
  \/ AskSteps(p, BOOLEAN)
  \/ \E f \in BOOLEAN : GocGet(p, f)
  \/ GocCreate(p)
  \/ GocGlossary(p)
  \/ \E f \in BOOLEAN : GocSave(p, f)

\* the language pipeline with collaborators that answer and an event loop that
\* runs what is scheduled
SpecAskFair ==
  Init /\ [][NextAsk]_vars /\ WF_vars(AskCallSteps(AskClient)) /\ WF_vars(RunIncident)

\* the same, with requests that may be cancelled while they await the translation
NextAskCancel ==
  \/ NextAsk
  \/ AqCancel(AskClient)

SpecAskCancel ==
  Init /\ [][NextAskCancel]_vars /\ WF_vars(AskCallSteps(AskClient))
       /\ WF_vars(RunIncident)

\* the client that asks, next to the other processes calling
\* get_or_create_notebook
NextAskRace ==
  \/ NextAsk
  \/ \E p \in Procs \ {AskClient} : CallGetOrCreate(p)
  \/ \E p \in Procs \ {AskClient} : GocGet(p, FALSE)
  \/ \E p \in Procs \ {AskClient} : GocCreate(p)
  \/ \E p \in Procs \ {AskClient} : GocGlossary(p)
  \/ \E p \in Procs \ {AskClient} : GocSave(p, FALSE)

SpecAskRace == Init /\ [][NextAskRace]_vars

\* ------------------------------------------ the pure functions, applied
\* "1.e4 e5 2.Nf3 Nc6 jaque mate": 18 characters of moves and blanks go, the
\* 10 of "jaque mate" stay; the classifier's verdict on them is left open
GameWithJaqueMate(lingua, conf) ==
  Text("1.e4 e5 2.Nf3 Nc6 jaque mate", 18, 10, lingua, conf)

Verdicts == {"en", "es", "other"}
Confidences == {0, 50, 90}

DetectInputs ==
  {Text("t", chess, words, l, c) :
     chess \in {0, 18}, words \in {0, 19, 20, 40}, l \in Verdicts, c \in Confidences}
  \cup {GameWithJaqueMate(l, c) : l \in Verdicts, c \in Confidences}

KeyEmails == {<<"a">>, <<"a", "-", "b">>}
KeyCategories == {<<"c">>, <<"b", "-", "c">>}

\* language_utils.py: detect_response_language(text)
CallDetect(p) ==
  /\ Free(p)
  /\ \E text \in DetectInputs :
       procs' = [procs EXCEPT ![p] =
         Finish([Begin(p, "detect_response_language", "", <<>>, <<>>)
                   EXCEPT !.raw = text, !.trace = DetectorCalls(text)],
                detect_response_language(text))]
  /\ opsStarted' = opsStarted + 1
  /\ UNCHANGED <<db, notebooks, nbSources, nextId, epochCreates, promised, tasks,
                 incidents, analysis_history>>

\* models.py: parse_user_key(make_user_key(user_email, main_category))
CallParseUserKey(p) ==
  /\ Free(p)
  /\ \E user_email \in KeyEmails, main_category \in KeyCategories :
       procs' = [procs EXCEPT ![p] =
         Finish(Begin(p, "parse_user_key", "", user_email, main_category),
                parse_user_key(make_user_key(user_email, main_category)))]
  /\ opsStarted' = opsStarted + 1
  /\ UNCHANGED <<db, notebooks, nbSources, nextId, epochCreates, promised, tasks,
                 incidents, analysis_history>>

NextFunctions ==
  \/ \E p \in Procs : CallDetect(p)
  \/ \E p \in Procs : CallParseUserKey(p)

SpecFunctions == Init /\ [][NextFunctions]_vars

\* ---------------------------------------------------------------- claims
Last(seq) == seq[Len(seq)]
Has(seq, x) == \E i \in 1..Len(seq) : seq[i] = x
IsMapping(v) == v # None /\ v # Raised /\ v # Pending

\* C1: concurrent get_or_create_notebook calls for a key without a mapping make
\* one backend create call for that key: between two deletions of its mapping
\* a key never sees a second create.
C1_OneCreatePerKey == \A k \in UserKeys : epochCreates[k] <= 1

\* C2: no step overwrites the notebook_id of an existing mapping in place; the
\* id stored for a key changes only by deleting the mapping and creating anew.
C2_NotebookIdNotOverwritten ==
  [][\A k \in UserKeys :
       (db[k] # None /\ db'[k] # None) => db'[k].notebook_id = db[k].notebook_id]_vars

\* C3: once get_or_create_notebook has returned a mapping for a key, a lookup of
\* the key finds a mapping with that notebook_id until delete_notebook or a
\* stale recreation intervenes.
C3_StableNotebookId ==
  \A k \in UserKeys :
    promised[k] # 0 => (db[k] # None /\ db[k].notebook_id = promised[k])

\* get_or_create_notebook of process p finds a mapping in this step
GocFindsExisting(p) ==
  /\ procs[p].pc = "goc_get"
  /\ procs'[p] # procs[p]
  /\ Last(procs'[p].trace) = "db.get:found"

\* C4: when a mapping exists, get_or_create_notebook hands back that mapping as
\* stored and makes no backend call and no persistence write, whatever name and
\* language were requested.
C4_ExistingReturnedUnchanged ==
  [][\A p \in Procs :
       GocFindsExisting(p) =>
         LET stored == db[KeyOf(procs[p])] IN
         /\ db' = db
         /\ notebooks' = notebooks
         /\ nbSources' = nbSources
         /\ nextId' = nextId
         /\ IF procs'[p].pc = "done"
              THEN procs'[p].result = stored
              ELSE procs'[p].nb = stored
         /\ procs'[p].trace = Append(procs[p].trace, "db.get:found")]_vars

\* a finished get_or_create_notebook that found a mapping stored under another
\* language and another name than the ones it asked for
C4_Witness ==
  \E p \in Procs :
    /\ procs[p].op = "get_or_create_notebook"
    /\ procs[p].pc = "done"
    /\ procs[p].trace = <<"db.get:found">>
    /\ IsMapping(procs[p].result)
    /\ procs[p].result.preferred_language # procs[p].lang
    /\ procs[p].result.notebook_name # NotebookTitle(procs[p].name, procs[p].email,
                                                     procs[p].category)

\* C5: _ensure_valid_notebook on a mapping whose notebook the backend no longer
\* has returns a mapping of the same user_key with another notebook_id.
C5_StaleGetsNewId ==
  \A p \in Procs :
    LET pr == procs[p] IN
    (/\ pr.op = "_ensure_valid_notebook"
     /\ pr.pc = "done"
     /\ Has(pr.trace, "nb.get:notfound")
     /\ IsMapping(pr.result))
    => (pr.result.user_key = KeyOf(pr) /\ pr.result.notebook_id # pr.stale)

ProbeFailures == {"nb.get:notfound", "nb.get:error"}

\* C6: in _ensure_valid_notebook a failed probe, NotFound or any other error
\* alike, leads to delete_user_notebook on the key (the mapping is gone once that
\* call is done) and then to get_or_create_notebook; a probe that succeeds
\* returns the mapping read, and the probe deletes and creates nothing.
C6_ProbeHandling ==
  [][\A p \in Procs :
       LET pr == procs[p]
           after == procs'[p] IN
       /\ (pr.pc = "ev_probe" /\ after # pr) =>
            /\ db' = db /\ notebooks' = notebooks /\ nextId' = nextId
            /\ Last(after.trace) \in ProbeFailures \cup {"nb.get:ok"}
            /\ Last(after.trace) = "nb.get:ok" =>
                 IF pr.stack = <<>>
                   THEN after.pc = "done" /\ after.result = pr.nb
                   ELSE after.pc = "cg_add" /\ after.nb = pr.nb
            /\ Last(after.trace) \in ProbeFailures => after.pc = "ev_delete"
       /\ (pr.pc = "ev_delete" /\ after # pr) =>
            /\ Last(pr.trace) \in ProbeFailures
            /\ Last(after.trace) \in {"db.delete:ok", "db.delete:fail"}
            /\ Last(after.trace) = "db.delete:ok" => db'[KeyOf(pr)] = None
            /\ notebooks' = notebooks /\ nextId' = nextId
            /\ after.pc = "goc_get" /\ Head(after.stack) = "ev"]_vars

\* a probe that failed with an error other than NotFound, then the delete, then
\* the creation of the replacement
C6_Witness ==
  \E p \in Procs :
    /\ procs[p].op = "_ensure_valid_notebook"
    /\ procs[p].pc = "done"
    /\ Len(procs[p].trace) >= 5
    /\ procs[p].trace[2] = "nb.get:error"
    /\ procs[p].trace[3] = "db.delete:ok"
    /\ procs[p].trace[5] = "nb.create:ok"
    /\ IsMapping(procs[p].result)

\* C7: when the backend delete of delete_notebook fails, the call returns False
\* and that step leaves the persisted mappings as they are.
C7_BackendDeleteFails ==
  [][\A p \in Procs :
       (/\ procs[p].pc = "dn_backend"
        /\ procs'[p] # procs[p]
        /\ Last(procs'[p].trace) = "nb.delete:fail")
       => (/\ db' = db
           /\ procs'[p].pc = "done"
           /\ procs'[p].result = RBool(FALSE)
           /\ ~Has(procs'[p].trace, "db.delete:ok")
           /\ ~Has(procs'[p].trace, "db.delete:fail"))]_vars

\* delete_notebook returned False after a failed backend delete and the mapping
\* is still there
C7_Witness ==
  \E p \in Procs :
    /\ procs[p].op = "delete_notebook"
    /\ procs[p].pc = "done"
    /\ procs[p].result = RBool(FALSE)
    /\ Last(procs[p].trace) = "nb.delete:fail"
    /\ db[KeyOf(procs[p])] = procs[p].nb

\* C8: delete_notebook deletes the backend notebook before the mapping, the
\* mapping is gone whenever it returns True, and without a mapping it returns
\* False and calls nothing else.
C8_DeleteNotebook ==
  [][\A p \in Procs :
       (procs[p].op = "delete_notebook" /\ procs[p].pc # "done" /\ procs'[p].pc = "done")
       => LET t == procs'[p].trace
              r == procs'[p].result IN
          /\ r = RBool(TRUE) =>
               /\ db'[KeyOf(procs[p])] = None
               /\ Len(t) = 3 /\ t[2] = "nb.delete:ok"
               /\ t[3] \in {"db.delete:ok", "db.delete:fail"}
          /\ t[1] = "db.get:none" => (r = RBool(FALSE) /\ Len(t) = 1)]_vars

\* C9: when the backend add-source call of add_source or add_chess_game fails,
\* the call returns False and that step leaves the mappings (sources, updated_at)
\* as they are; a source is appended to a mapping only by a call whose backend
\* add-source call has succeeded.
C9_AppendAfterBackend ==
  [][/\ \A p \in Procs :
          (/\ procs[p].pc \in {"as_add", "cg_add"}
           /\ procs'[p] # procs[p]
           /\ Last(procs'[p].trace) \in {"nb.add:fail", "unsupported"})
          => (db' = db /\ procs'[p].pc = "done" /\ procs'[p].result = RBool(FALSE))
     /\ \A k \in UserKeys :
          (/\ db[k] # None
           /\ db'[k] # None
           /\ Len(db'[k].sources) > Len(db[k].sources))
          => \E p \in Procs :
               /\ procs[p].pc \in {"as_append", "cg_append"}
               /\ Last(procs[p].trace) = "nb.add:ok"
               /\ KeyOf(procs[p]) = k
               /\ procs'[p].result = RBool(TRUE)
               /\ Len(db'[k].sources) = Len(db[k].sources) + 1]_vars

\* add_source, and add_chess_game, returned False after a failed backend call
\* on a mapping that exists
C9_Witness ==
  /\ \E p \in Procs :
       /\ procs[p].op = "add_source"
       /\ procs[p].pc = "done"
       /\ procs[p].result = RBool(FALSE)
       /\ Last(procs[p].trace) = "nb.add:fail"
       /\ db[KeyOf(procs[p])] = procs[p].nb
  /\ \E p \in Procs :
       /\ procs[p].op = "add_chess_game"
       /\ procs[p].pc = "done"
       /\ procs[p].result = RBool(FALSE)
       /\ Last(procs[p].trace) = "nb.add:fail"

\* an incident report of the running call of pr is scheduled or has run
Reported(pr) == \E t \in tasks \cup incidents : t.call = pr.id

\* the running ask_question of pr has declared no mismatch on the answer
NoMismatch(pr) ==
  /\ ~Reported(pr)
  /\ ~Has(pr.trace, "incident:scheduled")
  /\ ~Has(pr.trace, "translate:post")
  /\ ~Has(pr.trace, "translate:same")
  /\ pr.pc = "done"
  /\ pr.result = AskQuestionResponse(pr.raw, pr.lang, FALSE)

\* the running ask_question of pr has declared a mismatch on the answer
Mismatch(pr) ==
  /\ Reported(pr)
  /\ Has(pr.trace, "incident:scheduled")
  /\ pr.pc = "done" => (pr.result = None \/ pr.result.was_translated)

\* ask_question of pr has the answer of the backend, asked in another language
\* than the default
Answered(pr) == pr.op = "ask_question" /\ pr.raw # None /\ pr.lang # "en"

Count(seq, x) == Cardinality({i \in 1..Len(seq) : seq[i] = x})

\* the value is an AskQuestionResponse
IsResponse(v) == v # None /\ v # Raised /\ v # Pending /\ v # Cancelled

\* ask_question of pr, asked in a non-default language, has an answer that the
\* detector puts in another language with a confidence above the threshold
ConfidentMismatch(pr) ==
  /\ Answered(pr)
  /\ detect_response_language(pr.raw)[1] \notin {"unknown", pr.lang}
  /\ detect_response_language(pr.raw)[2] > ConfidenceThreshold

\* C11: ask_question in a non-default language whose backend answer is
\* confidently detected in another language returns was_translated = true with
\* an answer that differs from the raw backend answer.
C11_TranslatedDiffers ==
  \A p \in Procs :
    LET pr == procs[p] IN
    (ConfidentMismatch(pr) /\ pr.pc = "done")
    => (/\ IsResponse(pr.result)
        /\ pr.result.was_translated
        /\ pr.result.answer # pr.raw)

\* the translation service did not deliver a translation
TranslationFailed(reply) ==
  \/ reply.kind \in {"timeout", "http_error", "error", "ok_no_field"}
  \/ reply.kind = "ok" /\ reply.translated = None

\* C12: once the backend ask has succeeded, ask_question returns a response
\* whatever the translation service does and whatever becomes of the incident
\* report; when the translation fails the response carries the untranslated
\* answer.
C12_AnsweredAfterAsk ==
  \A p \in Procs :
    LET pr == procs[p] IN
    (pr.op = "ask_question" /\ pr.pc = "done" /\ Has(pr.trace, "chat.ask:ok"))
    => (/\ IsResponse(pr.result)
        /\ TranslationFailed(pr.reply) => pr.result.answer = pr.raw)

\* the calls of one ask_question come in the order of its steps, none twice: the
\* prompt is built with the one backend ask, the answer is verified after it,
\* the report is scheduled right after a successful ask and the translation
\* right after the report
StepsInOrder(pr) ==
  LET t == pr.trace
      asks == {i \in 1..Len(t) : t[i] \in {"chat.ask:ok", "chat.ask:fail"}}
      reports == {i \in 1..Len(t) : t[i] = "incident:scheduled"}
      translations == {i \in 1..Len(t) : t[i] \in {"translate:same", "translate:post"}} IN
  /\ Cardinality(asks) <= 1
  /\ Cardinality(reports) <= 1
  /\ Cardinality(translations) <= 1
  /\ (pr.prompt # <<>>) = (asks # {})
  /\ pr.raw # None => Has(t, "chat.ask:ok")
  /\ \A i \in reports : i > 1 /\ t[i - 1] = "chat.ask:ok"
  /\ \A i \in translations : i > 1 /\ t[i - 1] = "incident:scheduled"
  /\ IsResponse(pr.result) => Has(t, "chat.ask:ok")

\* C13: every ask_question call ends, in one of the two terminal states
\* Answered (a response) and Failed (None), given collaborators that return or
\* fail; its steps come in the order detect, augment, dispatch, verify,
\* finalize and none is repeated.
C13_AskTerminates ==
  /\ [](\A p \in Procs :
          procs[p].op = "ask_question" =>
            /\ StepsInOrder(procs[p])
            /\ procs[p].pc = "done" =>
                 (procs[p].result = None \/ IsResponse(procs[p].result)))
  /\ \A p \in Procs :
       (procs[p].op = "ask_question" /\ procs[p].pc # "done") ~> (procs[p].pc = "done")

\* C14: when the backend ask fails, ask_question returns None then and there:
\* the backend was asked once, and no answer is verified, no incident report
\* scheduled and no translation called in that call.
C14_AskFailureIsTerminal ==
  \A p \in Procs :
    LET pr == procs[p] IN
    (pr.op = "ask_question" /\ Has(pr.trace, "chat.ask:fail"))
    => (/\ pr.pc = "done"
        /\ pr.result = None
        /\ Last(pr.trace) = "chat.ask:fail"
        /\ Count(pr.trace, "chat.ask:fail") + Count(pr.trace, "chat.ask:ok") = 1
        /\ pr.raw = None
        /\ pr.tr = None
        /\ ~Reported(pr))

\* a call in a non-default language, on a notebook the backend has, whose
\* backend ask failed
C14_Witness ==
  \E p \in Procs :
    /\ procs[p].op = "ask_question"
    /\ procs[p].lang # "en"
    /\ procs[p].pc = "done"
    /\ Last(procs[p].trace) = "chat.ask:fail"
    /\ procs[p].nb.notebook_id \in notebooks
    /\ procs[p].result = None

\* the translation calls made so far by the call of pr
Translations(pr) == Count(pr.trace, "translate:post") + Count(pr.trace, "translate:same")

\* C15: the step of ask_question that declares a mismatch schedules the incident
\* report and goes on without waiting for it, and calls translate_response once,
\* with the language detected for the answer as source_lang and the requested
\* preferred_language as target_lang; on a confident mismatch that call posts
\* the request to the translation service.
C15_ReportThenTranslate ==
  [][\A p \in Procs :
       LET pr == procs[p]
           after == procs'[p] IN
       /\ (pr.pc = "aq_ask" /\ Has(after.trace, "incident:scheduled")) =>
            LET detected_lang == detect_response_language(after.raw)[1]
                task == IncidentTask(pr, detected_lang, after.raw) IN
            /\ task \notin tasks
            /\ tasks' = tasks \cup {task}
            /\ incidents' = incidents
            /\ after.tr = [source_lang |-> detected_lang, target_lang |-> pr.lang]
            /\ Translations(after) = 1
            /\ ConfidentMismatch(after) =>
                 /\ after.trace = pr.trace \o <<"chat.ask:ok", "incident:scheduled",
                                                "translate:post">>
                 /\ after.pc = "aq_translate"
       /\ (pr.pc = "aq_translate" /\ after # pr) =>
            /\ after.tr = pr.tr
            /\ Translations(after) = 1
            /\ after.pc = "done"]_vars

\* a call that returned the translation of a Spanish answer asked for in French
\* while its incident report has not run yet
C15_Witness ==
  \E p \in Procs :
    /\ ConfidentMismatch(procs[p])
    /\ procs[p].pc = "done"
    /\ procs[p].tr = [source_lang |-> "es", target_lang |-> "fr"]
    /\ IsResponse(procs[p].result)
    /\ procs[p].result.answer # procs[p].raw
    /\ \E t \in tasks : t.call = procs[p].id

\* C16: the incident report runs detached from the request: a report that runs,
\* to its end or into a failure, changes no call and no result; a scheduled
\* report leaves the schedule only by running, whatever becomes of the call that
\* scheduled it (returned, failed, cancelled); and every scheduled report runs
\* in the end.
C16_ReportDetached ==
  /\ [][/\ (\E t \in tasks : t \notin tasks') => procs' = procs
        /\ \A t \in tasks :
             \/ t \in tasks'
             \/ \E outcome \in {"logged", "failed"} :
                  [t EXCEPT !.outcome = outcome] \in incidents']_vars
  /\ \A c \in 1..MaxOps :
       (\E t \in tasks : t.call = c) ~> (\E t \in incidents : t.call = c)

\* a request cancelled while it awaited the translation, whose report has run
\* and failed
C16_Witness ==
  \E p \in Procs :
    /\ procs[p].op = "ask_question"
    /\ procs[p].pc = "done"
    /\ procs[p].result = Cancelled
    /\ \E t \in incidents : t.call = procs[p].id /\ t.outcome = "failed"

\* the failures of the translation request that translate_response catches
RequestFailures == {[kind |-> "timeout"], [kind |-> "http_error"], [kind |-> "error"]}

\* C17: translate_response never raises, and for source_lang # target_lang it
\* returns the text it was given when the request times out, is answered with
\* a non-2xx status or fails in any other way; ask_question then returns that
\* text.
C17_TranslateNeverRaises ==
  \A p \in Procs :
    LET pr == procs[p] IN
    /\ pr.raw # None =>
         \A s \in Langs, t \in Langs :
           /\ \A reply \in TranslationReplies(pr.raw) :
                translate_response(pr.raw, s, t, reply).answer # Raised
           /\ s # t => \A reply \in RequestFailures :
                translate_response(pr.raw, s, t, reply) = [posted |-> TRUE, answer |-> pr.raw]
    /\ (pr.op = "ask_question" /\ pr.pc = "done" /\ pr.reply \in RequestFailures)
       => (IsResponse(pr.result) /\ pr.result.answer = pr.raw)

\* a call whose translation request timed out and that returned the answer of
\* the backend
C17_Witness ==
  \E p \in Procs :
    /\ procs[p].op = "ask_question"
    /\ procs[p].pc = "done"
    /\ procs[p].reply = [kind |-> "timeout"]
    /\ procs[p].tr.source_lang # procs[p].tr.target_lang
    /\ IsResponse(procs[p].result)
    /\ procs[p].result.answer = procs[p].raw

\* C18: translate_response with source_lang = target_lang returns the text it
\* was given and posts nothing to the translation service.
C18_SameLanguageNoCall ==
  \A p \in Procs :
    LET pr == procs[p] IN
    /\ pr.raw # None =>
         \A s \in Langs, reply \in TranslationReplies(pr.raw) \cup {NoReply} :
           translate_response(pr.raw, s, s, reply) = [posted |-> FALSE, answer |-> pr.raw]
    /\ (pr.tr # None /\ pr.tr.source_lang = pr.tr.target_lang)
       => (/\ ~Has(pr.trace, "translate:post")
           /\ Last(pr.trace) = "translate:same"
           /\ pr.reply = NoReply
           /\ pr.pc = "done"
           /\ IsResponse(pr.result)
           /\ pr.result.answer = pr.raw)

\* a call that declared a mismatch on an answer detected in the requested
\* language and called translate_response from that language to itself
C18_Witness ==
  \E p \in Procs :
    /\ procs[p].op = "ask_question"
    /\ procs[p].pc = "done"
    /\ procs[p].tr # None
    /\ procs[p].tr.source_lang = procs[p].tr.target_lang
    /\ Last(procs[p].trace) = "translate:same"
    /\ procs[p].result.answer = procs[p].raw

\* C19: for the default language the verification is skipped:
\* is_language_correct(text, 'en') is true of every text, and ask_question
\* returns the answer of the backend as it is with was_translated = false,
\* schedules no incident report and calls no translation.
C19_DefaultLanguageSkipsCheck ==
  \A p \in Procs :
    LET pr == procs[p] IN
    /\ pr.raw # None => is_language_correct(pr.raw, "en")
    /\ pr.question # None => is_language_correct(pr.question, "en")
    /\ (pr.op = "ask_question" /\ pr.lang = "en" /\ Has(pr.trace, "chat.ask:ok"))
       => (/\ NoMismatch(pr)
           /\ pr.tr = None
           /\ Translations(pr) = 0)

\* a call in the default language that returned a Spanish answer as it came
C19_Witness ==
  \E p \in Procs :
    /\ procs[p].op = "ask_question"
    /\ procs[p].lang = "en"
    /\ procs[p].pc = "done"
    /\ procs[p].raw # None
    /\ detect_response_language(procs[p].raw) = <<"es", 90>>
    /\ procs[p].result = AskQuestionResponse(procs[p].raw, "en", FALSE)

\* the values ask_question can pass as user_writes_in
UserWritesIn == {None} \cup {[lang |-> l] : l \in Langs \cup {"unknown"}}

\* C20: build_enhanced_prompt(q, 'en', u) is q, whatever u is, so ask_question in
\* the default language sends the question to the backend as it was asked.
C20_DefaultPromptUnchanged ==
  \A p \in Procs :
    LET pr == procs[p] IN
    /\ pr.question # None =>
         \A u \in UserWritesIn : build_enhanced_prompt(pr.question, "en", u) = <<pr.question>>
    /\ (pr.op = "ask_question" /\ pr.lang = "en" /\ pr.prompt # <<>>)
       => pr.prompt = <<pr.question>>

\* a call in the default language whose question went to the backend, which
\* answered
C20_Witness ==
  \E p \in Procs :
    /\ procs[p].op = "ask_question"
    /\ procs[p].lang = "en"
    /\ Has(procs[p].trace, "chat.ask:ok")
    /\ detect_response_language(procs[p].question)[1] = "en"
    /\ procs[p].prompt = <<procs[p].question>>

\* the prompt starts with the language directive, ends with the question and
\* is longer than the question alone
Directed(prompt, question) ==
  /\ Len(prompt) > 1
  /\ Head(prompt) = [instruction |-> "es"]
  /\ Last(prompt) = question

IsDetect(pr) == pr.op = "detect_response_language" /\ pr.pc = "done"

\* C22 as claimed: detect_response_language("1.e4 e5 2.Nf3 Nc6 jaque mate")
\* strips the notation and classifies what is left as 'es' with confidence
\* above 0.5 (the classifier taking "jaque mate" for Spanish with such a
\* confidence).
C22_JaqueMateIsSpanish ==
  \A p \in Procs :
    (/\ IsDetect(procs[p])
     /\ \E c \in Confidences : c > ConfidenceThreshold
                                 /\ procs[p].raw = GameWithJaqueMate("es", c))
    => /\ procs[p].result[1] = "es"
       /\ procs[p].result[2] > ConfidenceThreshold

\* C22 as amended: detect_response_language("1.e4 e5 2.Nf3 Nc6 jaque mate")
\* strips the notation, is left with the 10 characters of "jaque mate", fewer
\* than the 20 it needs, and returns ('unknown', 0.0) without asking the
\* classifier, whatever the classifier would have said.
C22_JaqueMateIsUnknown ==
  \A p \in Procs :
    (/\ IsDetect(procs[p])
     /\ \E l \in Verdicts, c \in Confidences : procs[p].raw = GameWithJaqueMate(l, c))
    => /\ CleanedLen(_strip_chess_notation(procs[p].raw)) = 10
       /\ procs[p].result = <<"unknown", 0>>
       /\ procs[p].trace = <<>>

\* the game was given to the detector, with a classifier that would call the
\* words left Spanish
C22_Witness ==
  \E p \in Procs :
    /\ IsDetect(procs[p])
    /\ procs[p].raw = GameWithJaqueMate("es", 90)
    /\ procs[p].result = <<"unknown", 0>>

\* C23: detect_response_language returns ('unknown', 0.0) whenever the text
\* left after stripping the notation is shorter than 20 characters, the empty
\* text included, without consulting the classifier; and whenever it returns
\* 'unknown' the confidence is 0.0.
C23_ShortTextIsUnknown ==
  \A p \in Procs :
    IsDetect(procs[p]) =>
      /\ CleanedLen(_strip_chess_notation(procs[p].raw)) < MinDetectLength
           => /\ procs[p].result = <<"unknown", 0>>
              /\ procs[p].trace = <<>>
      /\ procs[p].result[1] = "unknown" => procs[p].result[2] = 0

\* a text one character short of the minimum, which the classifier would call
\* Spanish, an empty text, and a long text of another language have been seen
C23_Witness ==
  /\ \E p \in Procs :
       /\ IsDetect(procs[p])
       /\ procs[p].raw.words = MinDetectLength - 1
       /\ procs[p].raw.lingua = "es" /\ procs[p].raw.conf = 90
       /\ procs[p].result = <<"unknown", 0>>
  /\ \E p \in Procs :
       /\ IsDetect(procs[p])
       /\ \/ procs[p].raw.chess + procs[p].raw.words = 0
          \/ procs[p].raw.words >= MinDetectLength /\ procs[p].raw.lingua = "other"
       /\ procs[p].result = <<"unknown", 0>>

\* C26: parse_user_key(make_user_key(email, category)) = (email, category) for
\* every email and category, so two distinct pairs never share a user_key.
C26_UserKeyRoundTrip ==
  /\ \A p \in Procs :
       (procs[p].op = "parse_user_key" /\ procs[p].pc = "done")
       => procs[p].result = <<procs[p].email, procs[p].category>>
  /\ \A p, q \in Procs :
       (/\ procs[p].op = "parse_user_key" /\ procs[q].op = "parse_user_key"
        /\ KeyOf(procs[p]) = KeyOf(procs[q]))
       => /\ procs[p].email = procs[q].email
          /\ procs[p].category = procs[q].category

GlossaryLabels == {"glossary:unsupported", "glossary:ok", "glossary:fail"}

\* the glossary is provisioned at most once for each notebook the backend made
ProvisionedOncePerNotebook ==
  /\ \A id \in 1..nextId : Count(nbSources[id], GlossaryTitle) <= 1
  /\ \A p \in Procs :
       Cardinality({i \in 1..Len(procs[p].trace) : procs[p].trace[i] \in GlossaryLabels})
         <= Count(procs[p].trace, "nb.create:ok")

\* the glossary is provisioned right after get_or_create_notebook found no
\* mapping and created a notebook, and nowhere else
ProvisionedOnCreationOnly ==
  \A p \in Procs :
    \A i \in 1..Len(procs[p].trace) :
      procs[p].trace[i] \in GlossaryLabels
      => /\ i > 2
         /\ procs[p].trace[i - 1] = "nb.create:ok"
         /\ procs[p].trace[i - 2] = "db.get:none"

\* _ensure_valid_notebook found the mapping of a Spanish notebook stale and has
\* created the replacement notebook
ReplacedSpanish(pr) ==
  /\ pr.pc = "goc_save"
  /\ Has(pr.trace, "db.delete:ok") \/ Has(pr.trace, "db.delete:fail")
  /\ IsMapping(pr.nb)
  /\ pr.nb.preferred_language = "es"

\* the replacement of a stale Spanish notebook has had its glossary provisioned
ProvisionedOnRecreation ==
  \A p \in Procs :
    ReplacedSpanish(procs[p])
    => Has(procs[p].trace, "glossary:ok") \/ Has(procs[p].trace, "glossary:fail")

\* C24: glossary provisioning is invoked at most once per notebook the backend
\* created and only on the creation path of get_or_create_notebook, never for
\* an existing mapping; a stale mapping recreated through
\* _ensure_valid_notebook runs get_or_create_notebook again and so has the
\* glossary provisioned again on the replacement notebook.
C24_GlossaryOnCreation ==
  /\ ProvisionedOncePerNotebook
  /\ ProvisionedOnCreationOnly
  /\ ProvisionedOnRecreation

\* C25: add_glossary_source_to_notebook returns false and calls no backend for
\* every target language but 'es'; for 'es' it attaches exactly one text source,
\* the glossary, and returns true exactly when that call succeeded; it never
\* raises, so get_or_create_notebook goes on to save the mapping.
C25_GlossarySpanishOnly ==
  [][\A p \in Procs :
       (procs[p].pc = "goc_glossary" /\ procs'[p] # procs[p])
       => LET pr == procs[p]
              id == pr.created
              label == Last(procs'[p].trace) IN
          /\ procs'[p].pc = "goc_save"
          /\ Len(procs'[p].trace) = Len(pr.trace) + 1
          /\ \A n \in (1..nextId) \ {id} : nbSources'[n] = nbSources[n]
          /\ pr.lang # "es" => label = "glossary:unsupported" /\ nbSources' = nbSources
          /\ pr.lang = "es" =>
               /\ label \in {"glossary:ok", "glossary:fail"}
               /\ label = "glossary:ok"
                    <=> nbSources'[id] = Append(nbSources[id], GlossaryTitle)
               /\ label = "glossary:fail" => nbSources' = nbSources
               /\ label = "glossary:ok" => id \in notebooks]_vars

\* one notebook was created for a language without glossary and got none, one
\* for Spanish and got the glossary as its only source
C25_Witness ==
  \E p, q \in Procs :
    /\ Has(procs[p].trace, "glossary:unsupported")
    /\ nbSources[procs[p].created] = <<>>
    /\ Has(procs[q].trace, "glossary:ok")
    /\ nbSources[procs[q].created] = <<GlossaryTitle>>

Methods ==
  {"get_or_create_notebook", "_ensure_valid_notebook", "add_source", "add_chess_game",
   "delete_notebook", "ask_question"}

\* C27: get_or_create_notebook, _ensure_valid_notebook, add_source,
\* add_chess_game, delete_notebook and ask_question turn every failure of a
\* collaborator, the reads and writes of the persistence layer included, into a
\* false or None result: no exception of a collaborator leaves the call.
C27_NoExceptionEscapes ==
  \A p \in Procs :
    (procs[p].op \in Methods /\ procs[p].pc = "done")
    => /\ procs[p].result # Raised
       /\ Has(procs[p].trace, "db.get:raise")
            => procs[p].result \in {None, RBool(FALSE)}

IsPrefix(s, t) == Len(s) <= Len(t) /\ SubSeq(t, 1, Len(s)) = s

\* C28: once appended, a SourceRecord stays in the sources of its mapping,
\* unmodified and at the same position, until the mapping is deleted: the
\* sources of a live mapping only grow, under any interleaving of
\* get_or_create_notebook, add_source and add_chess_game for that key.
C28_SourcesOnlyGrow ==
  [][\A k \in UserKeys :
       (IsMapping(db[k]) /\ IsMapping(db'[k]))
       => IsPrefix(db[k].sources, db'[k].sources)]_vars

AppendedBy(pr) ==
  /\ pr.op = "add_source" /\ pr.pc = "done"
  /\ pr.trace = <<"db.get:found", "nb.add:ok", "db.append:ok">>

SourceOf(pr) == NotebookSource(pr.stype, "content", None, utcnow(pr, 3))

\* C29: two concurrent add_source calls for the same existing mapping, whose
\* backend calls both succeed and whose appends both reach the database, leave
\* both SourceRecords in the sources of the mapping: no update is lost, each
\* append is one atomic operation on the document of the key.
C29_NoLostAppend ==
  \A p, q \in Procs :
    (p # q /\ AppendedBy(procs[p]) /\ AppendedBy(procs[q])
     /\ KeyOf(procs[p]) = KeyOf(procs[q]))
    => LET sources == db[KeyOf(procs[p])].sources IN
       /\ Len(sources) = 2
       /\ Has(sources, SourceOf(procs[p]))
       /\ Has(sources, SourceOf(procs[q]))

\* both calls read the mapping before either appended to it, and both appended
C29_Witness ==
  \E p, q \in Procs :
    /\ p # q /\ AppendedBy(procs[p]) /\ AppendedBy(procs[q])
    /\ procs[p].nb.sources = <<>> /\ procs[q].nb.sources = <<>>
    /\ db[KeyOf(procs[p])].sources = <<SourceOf(procs[p]), SourceOf(procs[q])>>

\* what the other user has: the mapping with its sources, the analysis
\* history, the notebook and what is in it
OtherData(d, nbs, srcs, h) ==
  [mapping |-> d[OtherKey], history |-> h[OtherKey],
   notebook |-> db[OtherKey].notebook_id \in nbs,
   content |-> srcs[db[OtherKey].notebook_id]]

\* C30: every step of every call made for one user_key leaves the persisted
\* mapping, its sources, the analysis history and the notebook of every other
\* user_key as they were, under any interleaving.
C30_OtherKeysUntouched ==
  [][(procs' # procs)
     => OtherData(db', notebooks', nbSources', analysis_history')
          = OtherData(db, notebooks, nbSources, analysis_history)]_vars

\* calls for the user have created a notebook, deleted a mapping and saved an
\* analysis, and the other user's data is what it was
C30_Witness ==
  /\ nextId > 2
  /\ \E p \in Procs : Has(procs[p].trace, "db.save_analysis:ok")
  /\ \E k \in UserKeys : analysis_history[k] # None /\ db[k] # None /\ db[k].notebook_id > 2
  /\ Len(db[OtherKey].sources) = 1
  /\ Len(analysis_history[OtherKey].analyses) = 1

\* the mapping get_or_create_notebook builds in the call pr once the backend
\* has created the notebook pr.created
BuiltMapping(pr) ==
  [UserNotebook(pr.email, pr.category, pr.created,
                NotebookTitle(pr.name, pr.email, pr.category), pr.lang, utcnow(pr, 1))
     EXCEPT !.updated_at = utcnow(pr, 2)]

\* the calls get_or_create_notebook can make, in the order it makes them
GocTraces ==
  {<<"db.get:raise">>, <<"db.get:found">>, <<"db.get:none">>,
   <<"db.get:none", "nb.create:fail">>, <<"db.get:none", "nb.create:ok">>}
  \cup {<<"db.get:none", "nb.create:ok", g>> : g \in GlossaryLabels}
  \cup {<<"db.get:none", "nb.create:ok", s>> : s \in {"db.save:ok", "db.save:fail"}}
  \cup {<<"db.get:none", "nb.create:ok", g, s>> :
           g \in GlossaryLabels, s \in {"db.save:ok", "db.save:fail"}}

\* _ensure_valid_notebook of pr found no mapping
EnsuredWithoutMapping(pr) ==
  /\ pr.op = "_ensure_valid_notebook"
  /\ pr.trace # <<>>
  /\ Head(pr.trace) = "db.get:none"

\* C31: when no mapping exists for the user_key, _ensure_valid_notebook(email,
\* category, lang) makes no probe and no delete, and creates, persists and
\* returns the mapping get_or_create_notebook(email, category,
\* preferred_language=lang) would: what follows its read is a
\* get_or_create_notebook call, the mapping saved and returned is the one that
\* call builds for lang, and a mapping it finds is returned as it is stored.
C31_EnsureWithoutMappingIsGetOrCreate ==
  [][\A p \in Procs :
       (EnsuredWithoutMapping(procs'[p]) /\ procs'[p] # procs[p])
       => LET pr == procs[p]
              after == procs'[p]
              k == KeyOf(after) IN
          /\ Tail(after.trace) = <<>> \/ Tail(after.trace) \in GocTraces
          /\ after.stale = 0
          /\ pr.pc = "goc_get" /\ after.pc = "done" /\ after.result # Raised
               => IsMapping(db[k]) /\ after.result = db[k]
          /\ pr.pc = "goc_save"
               => /\ after.pc = "done"
                  /\ after.result = BuiltMapping(pr)
                  /\ after.result.preferred_language = pr.lang
                  /\ Last(after.trace) = "db.save:ok" => db'[k] = after.result
          /\ pr.pc = "goc_create" /\ after.pc = "done" => after.result = None]_vars

\* _ensure_valid_notebook found no mapping for a Spanish user, created the
\* notebook with its glossary, saved the mapping and returned it
C31_Witness ==
  \E p \in Procs :
    /\ EnsuredWithoutMapping(procs[p])
    /\ procs[p].pc = "done"
    /\ procs[p].trace = <<"db.get:none", "db.get:none", "nb.create:ok", "glossary:ok",
                          "db.save:ok">>
    /\ procs[p].result = BuiltMapping(procs[p])
    /\ procs[p].lang = "es"
    /\ db[KeyOf(procs[p])] = procs[p].result

\* add_source of pr read the database and found no mapping
AddedWithoutMapping(pr) ==
  /\ pr.op = "add_source"
  /\ pr.trace # <<>>
  /\ Head(pr.trace) = "db.get:none"

\* C32: add_source with auto_create_notebook = false that finds no mapping for
\* the user_key returns false without creating a notebook, without any backend
\* call and without any write to the database; with auto_create_notebook =
\* true the order is: the mapping is created (or found), then the content is
\* forwarded to the backend, then the SourceRecord is appended.
C32_AutoCreateOnlyWhenAsked ==
  [][\A p \in Procs :
       (AddedWithoutMapping(procs'[p]) /\ procs'[p] # procs[p])
       => LET after == procs'[p]
              t == after.trace IN
          IF ~after.auto
            THEN /\ after.pc = "done"
                 /\ after.result = RBool(FALSE)
                 /\ t = <<"db.get:none">>
                 /\ after.created = 0
                 /\ UNCHANGED <<db, notebooks, nbSources, nextId, analysis_history>>
            ELSE /\ \A i \in 1..Len(t) :
                      t[i] \in {"nb.add:ok", "nb.add:fail", "unsupported"}
                      => /\ i > 2
                         /\ t[i - 1] \in {"db.save:ok", "db.save:fail", "db.get:found"}
                         /\ IsMapping(after.nb)
                 /\ \A i \in 1..Len(t) :
                      t[i] \in {"db.append:ok", "db.append:fail"}
                      => i > 1 /\ t[i - 1] = "nb.add:ok"
                 /\ Last(t) = "nb.create:fail" => after.result = RBool(FALSE)]_vars

\* one call without auto_create_notebook found no mapping and gave up; one with
\* it created the notebook, saved the mapping, added the source and recorded it
C32_Witness ==
  \E p, q \in Procs :
    /\ AddedWithoutMapping(procs[p]) /\ ~procs[p].auto
    /\ procs[p].result = RBool(FALSE)
    /\ AddedWithoutMapping(procs[q]) /\ procs[q].auto
    /\ procs[q].trace = <<"db.get:none", "db.get:none", "nb.create:ok", "db.save:ok",
                          "nb.add:ok", "db.append:ok">>
    /\ procs[q].result = RBool(TRUE)

\* the history of the key was read, with the page the call asked for
HistoryRead(pr) ==
  /\ pr.op = "get_analysis_history" /\ pr.pc = "done"
  /\ Last(pr.trace) = "db.history:ok"

\* seq holds the records of all, newest first
NewestFirst(seq, all) ==
  /\ Len(seq) = Len(all)
  /\ \A x \in {all[i] : i \in 1..Len(all)} : Count(seq, x) = Count(all, x)
  /\ \A i, j \in 1..Len(seq) :
       i < j => ~Earlier_than(seq[i].created_at, seq[j].created_at)

\* the records of seq at the positions skip .. skip + limit - 1, counted from 0
Page(seq, limit, skip) ==
  LET at == {i \in 0..(Len(seq) - 1) : skip <= i /\ i < skip + limit} IN
  [i \in 1..Cardinality(at) |->
     seq[1 + CHOOSE j \in at : Cardinality({m \in at : m < j}) = i - 1]]

PageIsRight(pr) ==
  LET stored == analysis_history[KeyOf(pr)].analyses IN
  /\ pr.result.total_count = Len(stored)
  /\ \E seq \in {sorted_reverse(stored)} :
       /\ NewestFirst(seq, stored)
       /\ pr.result.analyses = Page(seq, pr.limit, pr.skip)

\* C33: get_analysis_history(key, limit, skip) returns the records at the
\* positions skip .. skip + limit - 1 of the history of the key sorted by
\* created_at, newest first, and a total_count that is the number of records
\* stored for the key, whatever limit and skip are.
C33_HistoryPage ==
  [][\A p \in Procs :
       (procs[p].pc = "ah_find" /\ HistoryRead(procs'[p])
        /\ analysis_history[KeyOf(procs[p])] # None)
       => PageIsRight(procs'[p])]_vars

\* the same for a limit and a skip that are not negative
PageOfNaturals ==
  [][\A p \in Procs :
       (procs[p].pc = "ah_find" /\ HistoryRead(procs'[p])
        /\ analysis_history[KeyOf(procs[p])] # None
        /\ procs[p].limit >= 0 /\ procs[p].skip >= 0)
       => PageIsRight(procs'[p])]_vars

\* the records stored for a key, none when it has no document
Analyses(h, k) == IF h[k] = None THEN <<>> ELSE h[k].analyses

\* C34: the analysis history of a user_key is append-only and does not depend
\* on the notebook mapping: save_analysis succeeds when no mapping exists,
\* every save_analysis that succeeds adds exactly one record and removes none,
\* and no step of get_or_create_notebook, delete_notebook, a stale recreation
\* or any other call changes the history.
C34_HistoryAppendOnly ==
  [][\A k \in AllKeys :
       LET before == Analyses(analysis_history, k)
           after == Analyses(analysis_history', k)
           savers == {p \in Procs : /\ procs[p].pc = "sa_save"
                                    /\ procs'[p] # procs[p]
                                    /\ KeyOf(procs[p]) = k} IN
       /\ IsPrefix(before, after)
       /\ savers = {} => analysis_history'[k] = analysis_history[k]
       /\ \A p \in savers :
            IF Last(procs'[p].trace) = "db.save_analysis:ok"
              THEN /\ Len(after) = Len(before) + 1
                   /\ Last(after).analysis_id = procs'[p].result.analysis_id
                   /\ procs'[p].result.success
              ELSE /\ after = before
                   /\ procs'[p].result = HTTPException]_vars

\* the mapping of the user has been deleted and the notebook is gone, and the
\* history of the user holds an analysis
C34_Witness ==
  \E k \in UserKeys :
    /\ db[k] = None
    /\ \E p \in Procs : procs[p].op = "delete_notebook" /\ procs[p].result = RBool(TRUE)
    /\ \E p \in Procs : /\ procs[p].op = "save_analysis" /\ procs[p].pc = "done"
                         /\ procs[p].result # HTTPException
                         /\ Analyses(analysis_history, k)
                              = <<AnalysisRecord("question", "answer", <<>>,
                                                 utcnow(procs[p], 1), utcnow(procs[p], 2))>>

\* the step of p ends add_source or add_chess_game with true
AddReturnsTrue(p) ==
  /\ procs[p].op \in {"add_source", "add_chess_game"}
  /\ procs[p].pc # "done"
  /\ procs'[p].pc = "done"
  /\ procs'[p].result = RBool(TRUE)

\* the record add_source or add_chess_game builds in the call pr
RecordOf(pr) ==
  IF pr.op = "add_source"
    THEN NotebookSource(pr.stype, "content", None, utcnow(pr, 3))
    ELSE NotebookSource("text", "preview", None, utcnow(pr, 3))

\* the mapping of the key of p exists and has the record of p as its last
ExactlyOneAppended(p) ==
  LET k == KeyOf(procs[p]) IN
  /\ IsMapping(db'[k])
  /\ Count(db'[k].sources, RecordOf(procs[p])) = 1
  /\ IsMapping(db[k])
  /\ db'[k].sources = Append(db[k].sources, RecordOf(procs[p]))

\* C35: whenever add_source or add_chess_game returns true, exactly one
\* SourceRecord for the content has been appended to the persisted mapping of
\* the user_key, also when a delete_notebook or a stale recreation for the key
\* came between the backend call and the append.
C35_TrueMeansRecorded ==
  [][\A p \in Procs : AddReturnsTrue(p) => ExactlyOneAppended(p)]_vars

\* the same for the calls whose append the database carried out
RecordedUnlessDatabaseFails ==
  [][\A p \in Procs :
       (AddReturnsTrue(p) /\ Last(procs'[p].trace) = "db.append:ok")
       => ExactlyOneAppended(p)]_vars

\* C36: get_or_create_notebook orphans no notebook: whenever its backend create
\* succeeded, on return the persisted mapping of the user_key references the
\* created notebook_id; and whenever it returns a mapping, that mapping is the
\* persisted one, also when the write to the database fails.
C36_NoOrphanNotebook ==
  [][\A p \in Procs :
       (/\ procs[p].op = "get_or_create_notebook"
        /\ procs[p].pc # "done" /\ procs'[p].pc = "done"
        /\ procs'[p].result # Raised)
       => LET k == KeyOf(procs[p])
              returned == procs'[p].result IN
          /\ procs'[p].created # 0
               => IsMapping(db'[k]) /\ db'[k].notebook_id = procs'[p].created
          /\ returned # None => db'[k] = returned]_vars

\* the same with a database that carried out the write
PersistedWhenWritten ==
  [][\A p \in Procs :
       (/\ procs[p].op = "get_or_create_notebook"
        /\ procs[p].pc # "done" /\ procs'[p].pc = "done"
        /\ procs'[p].result # Raised
        /\ ~Has(procs'[p].trace, "db.save:fail"))
       => LET k == KeyOf(procs[p])
              returned == procs'[p].result IN
          /\ procs'[p].created # 0
               => IsMapping(db'[k]) /\ db'[k].notebook_id = procs'[p].created
          /\ returned # None => db'[k] = returned]_vars

\* the step of p saves the mapping that replaces the stale one add_chess_game
\* found
ChessGameRecreates(p) ==
  /\ procs[p].op = "add_chess_game"
  /\ procs[p].pc = "goc_save"
  /\ procs[p].stale # 0
  /\ IsMapping(procs[p].nb)
  /\ procs'[p] # procs[p]

\* C37: when add_chess_game recreates a stale mapping, the replacement mapping
\* keeps the preferred_language of the stale mapping it replaces.
C37_RecreationKeepsLanguage ==
  [][\A p \in Procs :
       ChessGameRecreates(p)
       => /\ IsMapping(procs'[p].nb)
          /\ procs'[p].nb.preferred_language = procs[p].nb.preferred_language]_vars

\* the mapping of the key points at a notebook the backend does not have
IsStale(k) == IsMapping(db[k]) /\ db[k].notebook_id \notin notebooks

\* the process takes a step of an ask_question call
AskStep(p) == procs'[p] # procs[p] /\ procs'[p].op = "ask_question"

\* ask_question leaves an existing mapping as it is
AskKeepsMapping ==
  [][\A p \in Procs :
       (AskStep(p) /\ IsMapping(db[KeyOf(procs'[p])]))
       => db'[KeyOf(procs'[p])] = db[KeyOf(procs'[p])]]_vars

\* ask_question never probes and never deletes; asked on a stale mapping it
\* fails
AskFailsOnStale ==
  [][\A p \in Procs :
       AskStep(p)
       => /\ \A i \in 1..Len(procs'[p].trace) :
               procs'[p].trace[i] \notin {"nb.get:ok", "nb.get:notfound", "nb.get:error",
                                          "db.delete:ok", "db.delete:fail"}
          /\ (procs[p].pc = "aq_ask" /\ IsStale(KeyOf(procs[p]))
              /\ procs[p].nb = db[KeyOf(procs[p])])
               => /\ procs'[p].pc = "done"
                  /\ procs'[p].result = None
                  /\ Last(procs'[p].trace) = "chat.ask:fail"
                  /\ db' = db]_vars

\* C38: ask_question never deletes or replaces an existing mapping and never
\* probes the notebook: asked on a stale mapping it fails and leaves the
\* mapping as it is, so that asking again fails again until a call of
\* _ensure_valid_notebook repairs the mapping.
C38_AskNeverRepairs ==
  [][\A p \in Procs :
       AskStep(p)
       => /\ IsMapping(db[KeyOf(procs'[p])])
               => db'[KeyOf(procs'[p])] = db[KeyOf(procs'[p])]
          /\ \A i \in 1..Len(procs'[p].trace) :
               procs'[p].trace[i] \notin {"nb.get:ok", "nb.get:notfound", "nb.get:error",
                                          "db.delete:ok", "db.delete:fail"}
          /\ (procs[p].pc = "aq_ask" /\ IsStale(KeyOf(procs[p]))
              /\ procs[p].nb = db[KeyOf(procs[p])])
               => /\ procs'[p].pc = "done"
                  /\ procs'[p].result = None
                  /\ Last(procs'[p].trace) = "chat.ask:fail"]_vars

\* the glossary of the notebook the call pr created could not be added
GlossaryFailed(pr) == Has(pr.trace, "glossary:fail")

\* C39: a failure of the glossary provisioning inside get_or_create_notebook
\* does not fail the creation: the call goes on to save the mapping, and the
\* mapping is persisted, when the database carries out the write, and
\* returned, with the created notebook_id and the requested
\* preferred_language.
C39_GlossaryFailureNotFatal ==
  [][\A p \in Procs :
       (GlossaryFailed(procs'[p]) /\ procs'[p] # procs[p])
       => LET pr == procs[p]
              after == procs'[p]
              k == KeyOf(pr) IN
          /\ pr.pc = "goc_glossary" => after.pc = "goc_save"
          /\ pr.pc = "goc_save" /\ pr.stack = <<>>
               => /\ after.pc = "done"
                  /\ IsMapping(after.result)
                  /\ after.result.notebook_id = pr.created
                  /\ after.result.preferred_language = pr.lang
                  /\ Last(after.trace) = "db.save:ok" => db'[k] = after.result]_vars

\* the glossary of a Spanish user's new notebook could not be added; the
\* mapping was saved and returned all the same
C39_Witness ==
  \E p \in Procs :
    /\ procs[p].op = "get_or_create_notebook"
    /\ procs[p].pc = "done"
    /\ procs[p].trace = <<"db.get:none", "nb.create:ok", "glossary:fail", "db.save:ok">>
    /\ procs[p].lang = "es"
    /\ procs[p].result = BuiltMapping(procs[p])
    /\ db[KeyOf(procs[p])] = procs[p].result
    /\ nbSources[procs[p].created] = <<>>

====
